---------------------------- MODULE Spec2Model ----------------------------
(***************************************************************************)
(* A model of src/app.py: the SOAP -> Pre-Op converter.                    *)
(*                                                                         *)
(* Texts are TLA+ strings read character by character (SubSeq(s, i, i)).   *)
(* Offsets follow Python: text[a:b] is SubSeq(text, a + 1, b).             *)
(* Every regular expression of the source is transcribed as a pattern      *)
(* value, matched by a backtracking matcher that follows the re module.    *)
(***************************************************************************)
EXTENDS Integers, Sequences, FiniteSets, TLC

VARIABLES
    session_state,  \* st.session_state: a function from the keys present to values
    raw,            \* value of the "Paste SOAP mentah" text area
    minlap_text,    \* value of the Minlap text area
    widgets,        \* what the user typed into the widgets of tab 2 (a function of the touched ones)
    button,         \* the button whose press started the current script run
    pc,             \* position of the script run
    output,         \* the text tab 3 last rendered
    fn,             \* pure-function harness: the function applied
    arg,            \* pure-function harness: its arguments
    ret             \* pure-function harness: its result

vars == <<session_state, raw, minlap_text, widgets, button, pc, output, fn, arg, ret>>

sessionVars == <<session_state, raw, minlap_text, widgets, button, output>>

(***************************************************************************)
(* Bounds of the model.                                                    *)
(***************************************************************************)
MaxMinutes == 1500      \* largest N handed to minus_minutes
MaxTimeLen == 5         \* longest generated time text
MaxListLen == 3         \* longest generated list handed to dedupe_case_insensitive
MaxTokens == 4          \* most tokens of a generated text handed to pick_block
MaxProLines == 3        \* most lines of a generated P section
MaxSegments == 7        \* most '/'-separated segments of a generated identity line
MaxWeightKg == 30       \* heaviest generated body weight, in kg
MaxRate == 70           \* largest generated infusion rate, in mL/hr
MaxEdits == 2           \* most widgets of tab 2 the user touches in a session

(***************************************************************************)
(* Characters.  The source file holds the bullet glyph as the three        *)
(* characters U+00E2 U+20AC U+00A2 and the joiner after it as U+00E2       *)
(* U+00A0; the model writes them with ASCII stand-ins.                     *)
(***************************************************************************)
ACIRC == "^"            \* stands for U+00E2
EURO  == "~"            \* stands for U+20AC
CENT  == "%"            \* stands for U+00A2
NBSP  == "#"            \* stands for U+00A0 (white space for str.strip and \s)

BULLET == ACIRC \o EURO \o CENT
JOINER == ACIRC \o NBSP
BULLET_SEQ == BULLET \o JOINER \o "  " \o JOINER

WS == {" ", "\t", "\n", "\r", NBSP}

DIGITS == "0123456789"
LOWERS == "abcdefghijklmnopqrstuvwxyz"
UPPERS == "ABCDEFGHIJKLMNOPQRSTUVWXYZ"

At(s, i) == IF i >= 1 /\ i <= Len(s) THEN SubSeq(s, i, i) ELSE ""

\* s[a:b], offsets clamped as Python clamps them
Slice(s, a, b) ==
    LET lo == IF a < 0 THEN 0 ELSE a
        hi == IF b > Len(s) THEN Len(s) ELSE b
    IN  IF hi <= lo THEN "" ELSE SubSeq(s, lo + 1, hi)

IndexIn(c, alphabet) ==
    IF \E i \in 1..Len(alphabet) : SubSeq(alphabet, i, i) = c
    THEN CHOOSE i \in 1..Len(alphabet) : SubSeq(alphabet, i, i) = c
    ELSE 0

\* the characters of an alphabet
CharsOf(alphabet) == {SubSeq(alphabet, k, k) : k \in 1..Len(alphabet)}

DigitChars == CharsOf(DIGITS)

\* \w of the re module
WordChars == CharsOf(LOWERS) \cup CharsOf(UPPERS) \cup DigitChars \cup {"_", ACIRC}

IsWord(c) == c \in WordChars

ToLower == [c \in CharsOf(UPPERS) |-> SubSeq(LOWERS, IndexIn(c, UPPERS), IndexIn(c, UPPERS))]

ToUpper == [c \in CharsOf(LOWERS) |-> SubSeq(UPPERS, IndexIn(c, LOWERS), IndexIn(c, LOWERS))]

RECURSIVE Upper(_)
\* str.upper(), one half of the text after the other
Upper(s) ==
    IF Len(s) <= 1 THEN (IF s \in DOMAIN ToUpper THEN ToUpper[s] ELSE s)
    ELSE Upper(SubSeq(s, 1, Len(s) \div 2)) \o Upper(SubSeq(s, (Len(s) \div 2) + 1, Len(s)))

RECURSIVE Lower(_)
\* str.lower(), one half of the text after the other
Lower(s) ==
    IF Len(s) <= 1 THEN (IF s \in DOMAIN ToLower THEN ToLower[s] ELSE s)
    ELSE Lower(SubSeq(s, 1, Len(s) \div 2)) \o Lower(SubSeq(s, (Len(s) \div 2) + 1, Len(s)))

RECURSIVE SkipWs(_, _)
\* \s* from offset i (0-based): the offset after the white space
SkipWs(s, i) == IF i < Len(s) /\ At(s, i + 1) \in WS THEN SkipWs(s, i + 1) ELSE i

RECURSIVE SkipWsBack(_, _)
SkipWsBack(s, j) == IF j > 0 /\ At(s, j) \in WS THEN SkipWsBack(s, j - 1) ELSE j

\* str.strip()
Strip(s) ==
    LET a == SkipWs(s, 0)
        b == SkipWsBack(s, Len(s))
    IN  Slice(s, a, b)

\* str.lstrip()
LStrip(s) == Slice(s, SkipWs(s, 0), Len(s))

\* str.rstrip()
RStrip(s) == Slice(s, 0, SkipWsBack(s, Len(s)))

\* clean(s): (s or "").strip()
clean(s) == Strip(s)

StartsWith(s, p) == Len(s) >= Len(p) /\ Slice(s, 0, Len(p)) = p

\* str.find(sub, i), len(s) standing for "not found"
Find(s, sub, i) ==
    CHOOSE k \in i..Len(s) :
        /\ k = Len(s) \/ Slice(s, k, k + Len(sub)) = sub
        /\ \A j \in i..(k - 1) : Slice(s, j, j + Len(sub)) # sub

RECURSIVE Replace(_, _, _)
\* str.replace(old, new), old non-empty: the occurrences from left to right
Replace(s, old, new) ==
    LET at(k) == IF k >= Len(s) THEN s
                 ELSE Slice(s, 0, k) \o new \o Replace(Slice(s, k + Len(old), Len(s)), old, new)
    IN  at(Find(s, old, 0))

\* the offset of the next "\n" at or after offset i, or len(s)
LineEnd(s, i) == IF i >= Len(s) THEN i ELSE Find(s, "\n", i)

RECURSIVE SplitLinesFrom(_, _)
SplitLinesFrom(s, i) ==
    LET line(e) == <<Slice(s, i, e)>> \o SplitLinesFrom(s, e + 1)
    IN  IF i >= Len(s) THEN <<>> ELSE line(LineEnd(s, i))

\* str.splitlines(), "\n" being the only line boundary of the modelled texts
SplitLines(s) == SplitLinesFrom(s, 0)

RECURSIVE Join(_, _)
\* sep.join(parts)
Join(sep, parts) ==
    IF parts = <<>> THEN ""
    ELSE IF Len(parts) = 1 THEN parts[1]
    ELSE parts[1] \o sep \o Join(sep, Tail(parts))

RECURSIVE DigitsValue(_, _)
\* int(text) of a run of decimal digits
DigitsValue(s, acc) ==
    IF s = "" THEN acc
    ELSE DigitsValue(Slice(s, 1, Len(s)), acc * 10 + (IndexIn(At(s, 1), DIGITS) - 1))

RECURSIVE IntToStr(_)
IntToStr(n) ==
    IF n < 10 THEN SubSeq(DIGITS, n + 1, n + 1)
    ELSE IntToStr(n \div 10) \o SubSeq(DIGITS, (n % 10) + 1, (n % 10) + 1)

\* f"{n:02d}"
Pad2(n) == IF n < 10 THEN "0" \o IntToStr(n) ELSE IntToStr(n)

(***************************************************************************)
(* Dates: a date is a record [y, m, d] of the proleptic Gregorian calendar *)
(***************************************************************************)
DaysInMonth(y, m) ==
    IF m = 2 THEN (IF (y % 4 = 0 /\ y % 100 # 0) \/ y % 400 = 0 THEN 29 ELSE 28)
    ELSE IF m \in {4, 6, 9, 11} THEN 30 ELSE 31

\* d + timedelta(days=1)
NextDay(dt) ==
    IF dt.d < DaysInMonth(dt.y, dt.m) THEN [dt EXCEPT !.d = @ + 1]
    ELSE IF dt.m < 12 THEN [dt EXCEPT !.m = @ + 1, !.d = 1]
    ELSE [y |-> dt.y + 1, m |-> 1, d |-> 1]

\* date.toordinal(): the days from 1 January of year 1, which is day 1
Ordinal(dt) ==
    LET before(y) == 365 * y + (y \div 4) - (y \div 100) + (y \div 400)
        RECURSIVE months(_)
        months(m) == IF m = 0 THEN 0 ELSE DaysInMonth(dt.y, m) + months(m - 1)
    IN  before(dt.y - 1) + months(dt.m - 1) + dt.d

DAY_ID == <<"Senin", "Selasa", "Rabu", "Kamis", "Jumat", "Sabtu", "Minggu">>

\* DAY_ID[d.strftime("%A")]: day 1 of the calendar is a Monday
day_name_id(dt) == DAY_ID[((Ordinal(dt) + 6) % 7) + 1]

\* d.strftime("%d/%m/%Y"), the year having four digits
fmt_ddmmyyyy(dt) == Pad2(dt.d) \o "/" \o Pad2(dt.m) \o "/" \o IntToStr(dt.y)

\* Python's None
None == << <<>> >>
IsNone(x) == None = x

(***************************************************************************)
(* Regular expressions.  A pattern is a record that transcribes the regex  *)
(* of the source; Match is the backtracking matcher of the re module for   *)
(* the constructs the source uses.  Every search of the source but the     *)
(* digits-only ones is made with re.IGNORECASE: the matcher runs on the    *)
(* lower-cased text, literals are lower-cased and letter classes are       *)
(* written in lower case.                                                  *)
(***************************************************************************)
Lit(s) == [k |-> "lit", s |-> Lower(s)]
\* [...] and [^...]
In(cls) == [k |-> "in", cls |-> cls]
NotIn(cls) == [k |-> "notin", cls |-> cls]
\* x{lo,hi} of a one-character pattern x, greedy
Rep(x, lo, hi) == [k |-> "rep", x |-> x, lo |-> lo, hi |-> hi, lazy |-> FALSE]
\* x* , x+   (hi = -1: no limit)
Star(x) == [k |-> "rep", x |-> x, lo |-> 0, hi |-> -1, lazy |-> FALSE]
Plus(x) == [k |-> "rep", x |-> x, lo |-> 1, hi |-> -1, lazy |-> FALSE]
\* x*? , x+?
Lazy(r) == [r EXCEPT !.lazy = TRUE]
Cat(xs) == [k |-> "seq", xs |-> xs]
\* a|b|c
Alt(xs) == [k |-> "alt", xs |-> xs]
\* x?
Opt(x) == [k |-> "alt", xs |-> <<x, [k |-> "seq", xs |-> <<>>]>>]
\* ( ... ), the n-th group
Group(n, x) == [k |-> "group", n |-> n, x |-> x]
Mark(n, side) == [k |-> "mark", n |-> n, side |-> side]
\* \b
Wb == [k |-> "wb"]
\* ^ , and ^ with re.MULTILINE
Bol(multiline) == [k |-> "bol", multiline |-> multiline]
\* $ without re.MULTILINE
Eol == [k |-> "eol"]
\* \Z
EndZ == [k |-> "endz"]
\* \s* , \s+
Ws0 == Star(In(WS))
Ws1 == Plus(In(WS))
\* . without re.DOTALL, and with it
Dot == NotIn({"\n"})
DotAll == NotIn({})
\* \d , [A-Za-z]
Digit == In(DigitChars)
Letter == In(CharsOf(LOWERS))

OneChar(x, c) == c # "" /\ (IF x.k = "in" THEN c \in x.cls ELSE c \notin x.cls)

\* how many characters the one-character pattern x takes from offset i, hi at most
\* (hi < 0: no limit)
RunLen(x, text, i, hi) ==
    LET limit == IF hi < 0 \/ i + hi > Len(text) THEN Len(text) ELSE i + hi
        stop == CHOOSE j \in i..limit :
                    /\ j = limit \/ ~OneChar(x, At(text, j + 1))
                    /\ \A k \in i..(j - 1) : OneChar(x, At(text, k + 1))
    IN  stop - i

\* $ without re.MULTILINE: the end, or just before a final line break
AtDollar(text, i) ==
    i = Len(text) \/ (i = Len(text) - 1 /\ At(text, Len(text)) = "\n")

RECURSIVE Match(_, _, _, _)
RECURSIVE TryAlt(_, _, _, _, _, _)
RECURSIVE TryRep(_, _, _, _, _, _, _)

\* the alternatives xs[n], xs[n+1], ... in turn, each followed by rest
TryAlt(xs, n, rest, text, i, caps) ==
    IF n > Len(xs) THEN None
    ELSE LET or_next(r) == IF IsNone(r) THEN TryAlt(xs, n + 1, rest, text, i, caps) ELSE r
         IN  or_next(Match(<<xs[n]>> \o rest, text, i, caps))

\* a repetition that takes lo..most characters, followed by rest: the longest that
\* lets rest match when greedy, the shortest when lazy
TryRep(rest, text, i, lo, most, lazy, caps) ==
    LET least(ns) == CHOOSE a \in ns : \A b \in ns : a <= b
        pick(ns) == IF lazy THEN least(ns) ELSE 0 - least({0 - a : a \in ns})
        outcome(wins, n) == (CHOOSE w \in wins : w[1] = n)[2]
        among(wins) == IF wins = {} THEN None ELSE outcome(wins, pick({w[1] : w \in wins}))
        of(tries) == among({t \in tries : ~IsNone(t[2])})
    IN  of({<<n, Match(rest, text, i + n, caps)>> : n \in lo..most})

\* the patterns of items matched one after the other from offset i:
\* <<end offset, groups>> of the first way to match that the re module finds, or None
Match(items, text, i, caps) ==
    IF items = <<>> THEN <<i, caps>>
    ELSE LET x == Head(items)
             rest == Tail(items)
         IN  CASE x.k = "lit" ->
                    IF Slice(text, i, i + Len(x.s)) = x.s
                    THEN Match(rest, text, i + Len(x.s), caps) ELSE None
               [] x.k \in {"in", "notin"} ->
                    IF OneChar(x, At(text, i + 1)) THEN Match(rest, text, i + 1, caps) ELSE None
               [] x.k = "rep" ->
                    LET most == RunLen(x.x, text, i, x.hi)
                    IN  IF most < x.lo THEN None
                        ELSE TryRep(rest, text, i, x.lo, most, x.lazy, caps)
               [] x.k = "seq" -> Match(x.xs \o rest, text, i, caps)
               [] x.k = "alt" -> TryAlt(x.xs, 1, rest, text, i, caps)
               [] x.k = "group" ->
                    Match(<<Mark(x.n, "open"), x.x, Mark(x.n, "close")>> \o rest, text, i, caps)
               [] x.k = "mark" ->
                    Match(rest, text, i,
                          [caps EXCEPT ![x.n] = IF x.side = "open" THEN <<i, i>> ELSE <<@[1], i>>])
               [] x.k = "wb" ->
                    IF IsWord(At(text, i)) # IsWord(At(text, i + 1))
                    THEN Match(rest, text, i, caps) ELSE None
               [] x.k = "bol" ->
                    IF i = 0 \/ (x.multiline /\ At(text, i) = "\n")
                    THEN Match(rest, text, i, caps) ELSE None
               [] x.k = "eol" -> IF AtDollar(text, i) THEN Match(rest, text, i, caps) ELSE None
               [] x.k = "endz" -> IF i = Len(text) THEN Match(rest, text, i, caps) ELSE None

\* no group has taken part yet
NoGroups == <<<<>>, <<>>>>

\* re.match(pattern, text): <<m.end(), groups>> or None
ReMatch(pat, text) == Match(<<pat>>, Lower(text), 0, NoGroups)

\* the leftmost offset of low at which pat matches, with the match
SearchLow(pat, low) ==
    LET first(found) == CHOOSE m \in found : \A other \in found : m[1] <= other[1]
        among(found) == IF found = {} THEN None ELSE first(found)
        of(tries) == among({<<t[1], t[2][1], t[2][2]>> : t \in {u \in tries : ~IsNone(u[2])}})
    IN  of({<<i, Match(<<pat>>, low, i, NoGroups)>> : i \in 0..Len(low)})

\* re.search(pattern, text, flags): <<m.start(), m.end(), groups>> of the leftmost match, or None
Search(pat, text) == SearchLow(pat, Lower(text))

\* m.group(n) or "" when the group took no part
GroupText(text, groups, n) ==
    IF groups[n] = <<>> THEN "" ELSE Slice(text, groups[n][1], groups[n][2])

\* \bX\s*:\s*      (X one of S, O, A, P, EO, IO)
WbLabel(lit) == Cat(<<Wb, Lit(lit), Ws0, Lit(":"), Ws0>>)
\* \bX\.?Y\s*:\s*  (E\.?O, I\.?O)
WbLabelDot(x, y) == Cat(<<Wb, Lit(x), Opt(Lit(".")), Lit(y), Ws0, Lit(":"), Ws0>>)
\* \n\s*X\s*:\s*   (X one of O, A, P, IO)
NlLabel(lit) == Cat(<<Lit("\n"), Ws0, Lit(lit), Ws0, Lit(":"), Ws0>>)
\* \n\s*X\.?Y\s*:\s*
NlLabelDot(x, y) == Cat(<<Lit("\n"), Ws0, Lit(x), Opt(Lit(".")), Lit(y), Ws0, Lit(":"), Ws0>>)
\* Status\s+Generalis\s*:\s*
StatusGeneralis == Cat(<<Lit("Status"), Ws1, Lit("Generalis"), Ws0, Lit(":"), Ws0>>)
\* Status\s+Lokalis\s*:
StatusLokalis == Cat(<<Lit("Status"), Ws1, Lit("Lokalis"), Ws0, Lit(":")>>)
\* \n\s*(Status\s+Lokalis|EO\s*:|E\.?O\s*:)\s*
NlLokalisOrEO ==
    Cat(<<Lit("\n"), Ws0,
          Alt(<<Cat(<<Lit("Status"), Ws1, Lit("Lokalis")>>),
                Cat(<<Lit("EO"), Ws0, Lit(":")>>),
                Cat(<<Lit("E"), Opt(Lit(".")), Lit("O"), Ws0, Lit(":")>>)>>),
          Ws0>>)
\* \n\s*(Pemeriksaan|A\s*:|$)
NlPemeriksaanOrA ==
    Cat(<<Lit("\n"), Ws0, Alt(<<Lit("Pemeriksaan"), Cat(<<Lit("A"), Ws0, Lit(":")>>), Eol>>)>>)
\* Pemeriksaan\s+Penunjang\s*:?\s*
PemeriksaanPenunjang == Cat(<<Lit("Pemeriksaan"), Ws1, Lit("Penunjang"), Ws0, Opt(Lit(":")), Ws0>>)
\* \n\s*(Izin|Mohon|Residen|DPJP)\s*:\s*
NlClosing ==
    Cat(<<Lit("\n"), Ws0, Alt(<<Lit("Izin"), Lit("Mohon"), Lit("Residen"), Lit("DPJP")>>),
          Ws0, Lit(":"), Ws0>>)
\* RSGMP\s*UNHAS
RsgmpUnhas == Cat(<<Lit("RSGMP"), Ws0, Lit("UNHAS")>>)
\* \bPro\b
ProToken == Cat(<<Wb, Lit("Pro"), Wb>>)

pick_block_end_mut(start, rest, m2) == IF ~IsNone(m2) THEN m2[1] ELSE Len(rest)

\* end = start + (m2.start() if m2 else len(text[start:]))
pick_block_end(start, rest, m2) == start + (IF ~IsNone(m2) THEN m2[1] ELSE Len(rest))

pick_block(text, start_pat, end_pat) ==
    LET cut(start, rest) ==
            clean(Slice(text, start, pick_block_end(start, rest, Search(end_pat, rest))))
        from(m1) == IF IsNone(m1) THEN "" ELSE cut(m1[2], Slice(text, m1[2], Len(text)))
    IN  from(Search(start_pat, text))

RECURSIVE ReSubLines(_)
\* re.sub(r"[ \t]+\n", "\n", s): blanks and tabs before a line break are dropped
ReSubLines(s) ==
    LET e == LineEnd(s, 0) IN
    IF e >= Len(s) THEN s
    ELSE LET RECURSIVE back(_)
             back(j) == IF j > 0 /\ At(s, j) \in {" ", "\t"} THEN back(j - 1) ELSE j
         IN  Slice(s, 0, back(e)) \o "\n" \o ReSubLines(Slice(s, e + 1, Len(s)))

normalize_bullets(s0) ==
    IF s0 = "" THEN ""
    ELSE LET s1 == Replace(s0, BULLET \o JOINER, BULLET)
             s2 == Replace(s1, BULLET \o " " \o JOINER, BULLET \o " ")
             s3 == Replace(s2, BULLET \o JOINER \o "  " \o JOINER, BULLET \o " ")
         IN  Strip(ReSubLines(s3))

(***************************************************************************)
(* The patterns searched through pick1.                                    *)
(***************************************************************************)
\* (RSGMP[^\n/]+)
RsgmpGuess == Group(1, Cat(<<Lit("RSGMP"), Plus(NotIn({"\n", "/"}))>>))
\* \n\s*([A-Za-z]{1,4}\.\s*[^\n]+/\s*[LP]\s*/[^\n]+)\n
IdentSlashes ==
    Cat(<<Lit("\n"), Ws0,
          Group(1, Cat(<<Rep(Letter, 1, 4), Lit("."), Ws0, Plus(Dot), Lit("/"), Ws0,
                         In({"l", "p"}), Ws0, Lit("/"), Plus(Dot)>>)),
          Lit("\n")>>)
\* ^(Tn\.|Ny\.|An\.)[^\n]+   with re.MULTILINE
IdentTitle == Cat(<<Bol(TRUE), Group(1, Alt(<<Lit("Tn."), Lit("Ny."), Lit("An.")>>)), Plus(Dot)>>)
\* RM\.?\s*([0-9.]+)   and, with dot = FALSE,   RM\s*([0-9.]+)
RmNumber(dot) ==
    Cat(<<Lit("RM"), IF dot THEN Opt(Lit(".")) ELSE Cat(<<>>), Ws0,
          Group(1, Plus(In(CharsOf(DIGITS) \cup {"."})))>>)
\* \bBB\s*:?\s*([0-9]+(?:\.[0-9]+)?)\s*kg ; colon = TRUE: \bBB\s*:\s*( ... )\s*kg
Measure(label, unit, colon) ==
    Cat(<<Wb, Lit(label), Ws0, IF colon THEN Lit(":") ELSE Opt(Lit(":")), Ws0,
          Group(1, Cat(<<Plus(Digit), Opt(Cat(<<Lit("."), Plus(Digit)>>))>>)),
          Ws0, Lit(unit)>>)
\* Residen\s*:?\s*(.+) ; colon = TRUE: LABEL\s*:\s*(.+) ; wb: a leading \b
LabelLine(label, colon, wb) ==
    Cat(<<IF wb THEN Wb ELSE Cat(<<>>), Lit(label), Ws0,
          IF colon THEN Lit(":") ELSE Opt(Lit(":")), Ws0, Group(1, Plus(Dot))>>)
\* DPJP\s+Anestesi\s*:\s*(.+)
DpjpAnestesi == Cat(<<Lit("DPJP"), Ws1, Lit("Anestesi"), Ws0, Lit(":"), Ws0, Group(1, Plus(Dot))>>)

\* pick1(text, pattern, flags): clean(m.group(1)) if m else ""
pick1(text, pat) ==
    LET group1(m) == IF IsNone(m) THEN "" ELSE clean(GroupText(text, m[3], 1))
    IN  group1(Search(pat, text))

RECURSIVE SplitFrom(_, _, _)
SplitFrom(s, i, sep) ==
    LET e == i + RunLen(NotIn({sep}), s, i, -1)
    IN  IF e >= Len(s) THEN <<Slice(s, i, e)>>
        ELSE <<Slice(s, i, e)>> \o SplitFrom(s, e + 1, sep)

\* str.split(sep), sep one character
Split(s, sep) == SplitFrom(s, 0, sep)

RECURSIVE StripNonEmpty(_)
\* [x.strip() for x in parts if x.strip()]
StripNonEmpty(parts) ==
    IF parts = <<>> THEN <<>>
    ELSE IF Strip(Head(parts)) = "" THEN StripNonEmpty(Tail(parts))
    ELSE <<Strip(Head(parts))>> \o StripNonEmpty(Tail(parts))

\* sub in s
Contains(s, sub) == \E i \in 0..(Len(s) - Len(sub)) : Slice(s, i, i + Len(sub)) = sub

split_residen_text(s) ==
    IF s = "" THEN ""
    ELSE Join(", ", StripNonEmpty(Split(Replace(s, "\n", ","), ",")))

(***************************************************************************)
(* Helpers for IVFD, Puasa, Antibiotik automation                          *)
(***************************************************************************)
\* ^(\d{1,2}):(\d{1,2})$
HhMm == Cat(<<Bol(FALSE), Group(1, Rep(Digit, 1, 2)), Lit(":"), Group(2, Rep(Digit, 1, 2)), Eol>>)

parse_hhmm_range_mut(h, mi) == h < 0 \/ h > 24 \/ mi < 0 \/ mi > 60

\* the range test of parse_hhmm
parse_hhmm_range(h, mi) == h < 0 \/ h > 23 \/ mi < 0 \/ mi > 59

parse_hhmm(s0) ==
    LET ranged(h, mi) == IF parse_hhmm_range(h, mi) THEN None ELSE <<h, mi>>
        matched(s, m) ==
            IF IsNone(m) THEN None
            ELSE ranged(DigitsValue(GroupText(s, m[2], 1), 0), DigitsValue(GroupText(s, m[2], 2), 0))
        dotted(s) == matched(s, ReMatch(HhMm, s))
        cleaned(s) == IF s = "" THEN None ELSE dotted(Replace(s, ".", ":"))
    IN  cleaned(clean(s0))

\* f"{h:02d}.{mi:02d}"
fmt_time(h, mi) == Pad2(h) \o "." \o Pad2(mi)

wrap_total_mut(total) == IF total < 0 THEN -((-total) % (24 * 60)) ELSE total % (24 * 60)

\* total %= (24 * 60): Python's % takes the sign of the divisor
wrap_total(total) == total % (24 * 60)

minus_minutes(h, mi, minutes) ==
    LET total == wrap_total(h * 60 + mi - minutes)
    IN  <<total \div 60, total % 60>>

maintenance_ml_per_hr_421_mut(weight_kg) ==
    IF weight_kg <= 10000 THEN 4 * weight_kg
    ELSE IF weight_kg <= 20000 THEN 40000 + 2 * (weight_kg - 10000)
    ELSE 60000 + (weight_kg - 20000)

\* w = max(0.0, float(weight_kg)) and the three brackets; kg and mL/hr in thousandths
maintenance_ml_per_hr_421(weight_kg) ==
    LET rule(w) == IF w <= 10000 THEN 4 * w
                   ELSE IF w <= 20000 THEN 40000 + 2 * (w - 10000)
                   ELSE 60000 + (w - 20000)
    IN  rule(IF weight_kg < 0 THEN 0 ELSE weight_kg)

\* round(n / d) of Python: to the nearest integer, a tie going to the even one
RoundHalfEven(n, d) ==
    LET q == n \div d
        r == n % d
    IN  IF 2 * r > d THEN q + 1
        ELSE IF 2 * r < d THEN q
        ELSE IF q % 2 = 0 THEN q ELSE q + 1

\* float(text) of [0-9]+(\.[0-9]+)?, in thousandths
ParseFloat(txt) ==
    LET parts == Split(txt, ".")
    IN  DigitsValue(parts[1], 0) * 1000
        + (IF Len(parts) > 1 THEN DigitsValue(Slice(parts[2] \o "000", 0, 3), 0) ELSE 0)

\* a Python value handed to float() or int(): an int or a float (num, in thousandths;
\* text "nan" for the float nan), a str (text) or None
Py(type, num, text) == [type |-> type, num |-> num, text |-> text]

\* [0-9]+(\.[0-9]+)? , the numeric texts of the model
FloatText == Cat(<<Plus(Digit), Opt(Cat(<<Lit("."), Plus(Digit)>>)), EndZ>>)

tpm_round_mut(n, d) == n \div d

\* int(round(x / 60.0))
tpm_round(n, d) == RoundHalfEven(n, d)

\* try: return int(round((float(ml_per_hr) * int(drip_factor_gtt_per_ml)) / 60.0))
\* except Exception: return 0
tpm_from_ml_per_hr(ml_per_hr, drip_factor_gtt_per_ml) ==
    LET nan(x) == x.type = "float" /\ x.text = "nan"
        numeric(x) == x.type = "str" /\ ~IsNone(ReMatch(FloatText, Strip(x.text)))
        whole(x) == x.type = "str" /\ ~IsNone(ReMatch(Cat(<<Plus(Digit), EndZ>>), Strip(x.text)))
        \* float(x) raises for None and for a text that is no number
        float_raises(x) == x.type = "NoneType" \/ (x.type = "str" /\ ~numeric(x))
        float(x) == IF x.type = "str" THEN ParseFloat(Strip(x.text)) ELSE x.num
        \* int(x) raises for None, for nan and for a text that is no whole number
        int_raises(x) == x.type = "NoneType" \/ nan(x) \/ (x.type = "str" /\ ~whole(x))
        \* int(x) truncates a float toward zero
        int(x) == IF x.type = "str" THEN DigitsValue(Strip(x.text), 0)
                  ELSE IF x.num < 0 THEN 0 - ((0 - x.num) \div 1000) ELSE x.num \div 1000
        \* round(nan) raises
        round_raises == nan(ml_per_hr)
    IN  IF float_raises(ml_per_hr) \/ int_raises(drip_factor_gtt_per_ml) \/ round_raises
        THEN 0
        ELSE tpm_round(float(ml_per_hr) * int(drip_factor_gtt_per_ml), 60 * 1000)

(***************************************************************************)
(* dedupe_case_insensitive                                                 *)
(***************************************************************************)
dedupe_key_mut(x) == Lower(x)

\* k = x.strip().lower()
dedupe_key(x) == Lower(Strip(x))

RECURSIVE dedupe_loop(_, _, _, _)
dedupe_loop(lines, i, out, seen) ==
    IF i > Len(lines) THEN out
    ELSE LET x == lines[i]
             k == dedupe_key(x)
         IN  IF k = "" THEN dedupe_loop(lines, i + 1, out, seen)
             ELSE IF k \in seen THEN dedupe_loop(lines, i + 1, out, seen)
             ELSE dedupe_loop(lines, i + 1, Append(out, Strip(x)), seen \cup {k})

dedupe_case_insensitive(lines) == dedupe_loop(lines, 1, <<>>, {})

(***************************************************************************)
(* Models                                                                  *)
(***************************************************************************)
\* the field defaults of the dataclass
ParsedSoap ==
    [sapaan |-> "Assalamualaikum, Dokter.",
     pembuka |-> "Maaf mengganggu. Izin melaporkan pasien",
     jenis_laporan |-> "",
     rs |-> "RSGMP UNHAS",
     ident_line |-> "",
     nama |-> "", jk |-> "", umur |-> "", pembiayaan |-> "", jenis_perawatan |-> "",
     kamar |-> "", rm |-> "",
     bb |-> 0, tb |-> 0,
     tindakan_guess |-> "", anestesi_guess |-> "",
     minlap_penunjang_raw |-> "", minlap_jam_operasi |-> "", minlap_zona_waktu |-> "",
     dpjp_anestesi |-> "", sirkuler |-> "",
     S |-> "", O_generalis |-> "", EO |-> "", IO |-> "",
     penunjang_items |-> None,
     A |-> "",
     residen |-> "", dpjp |-> ""]

\* ParsedSoap(penunjang_items=[])
NewParsedSoap_mut == ParsedSoap

NewParsedSoap == [ParsedSoap EXCEPT !.penunjang_items = <<>>]

(***************************************************************************)
(* Tindakan dari P block helper                                            *)
(***************************************************************************)
\* re.sub(r"^<bullet>\s*", "", line)
StripBulletLead(line) ==
    IF StartsWith(line, BULLET) THEN Slice(line, SkipWs(line, Len(BULLET)), Len(line)) ELSE line

\* \bPro\b\s*(.+?)\s*(?:dalam\s+([^\n()]+)|\(|$)
ProCapture ==
    Cat(<<Wb, Lit("Pro"), Wb, Ws0, Group(1, Lazy(Plus(Dot))), Ws0,
          Alt(<<Cat(<<Lit("dalam"), Ws1, Group(2, Plus(NotIn({"\n", "(", ")"})))>>),
                Lit("("),
                Eol>>)>>)

\* \s*menunggu\s+penjadwalan\.?$
TrailMenunggu == Cat(<<Ws0, Lit("menunggu"), Ws1, Lit("penjadwalan"), Opt(Lit(".")), Eol>>)
\* \s*pada\s+hari\s+.+$
TrailPadaHari == Cat(<<Ws0, Lit("pada"), Ws1, Lit("hari"), Ws1, Plus(Dot), Eol>>)
\* \s*WORD\s+.+$   (Pukul, di)
TrailWord(word) == Cat(<<Ws0, Lit(word), Ws1, Plus(Dot), Eol>>)

\* re.sub(pattern, "", tindakan, flags=re.IGNORECASE).strip(), the pattern ending in $
SubTrail(pat, text) ==
    LET sub(m) == IF IsNone(m) THEN Strip(text)
                  ELSE Strip(Slice(text, 0, m[1]) \o Slice(text, m[2], Len(text)))
    IN  sub(Search(pat, text))

RECURSIVE ProLines(_)
\* [ln for ln in lines if re.search(r"\bPro\b", ln, re.IGNORECASE)]
ProLines(lines) ==
    IF lines = <<>> THEN <<>>
    ELSE IF ~IsNone(Search(ProToken, Head(lines))) THEN <<Head(lines)>> \o ProLines(Tail(lines))
    ELSE ProLines(Tail(lines))

pick_pro_line_mut(pro_lines) == pro_lines[1]

\* last = pro_lines[-1]
pick_pro_line(pro_lines) == pro_lines[Len(pro_lines)]

\* x or y, of two texts
Or(x, y) == IF x # "" THEN x ELSE y

tindakan_from_p_block(raw0) ==
    LET captured(last, m) ==
            IF IsNone(m) THEN <<"", "">>
            ELSE <<SubTrail(TrailWord("di"),
                       SubTrail(TrailWord("Pukul"),
                           SubTrail(TrailPadaHari,
                               SubTrail(TrailMenunggu, clean(GroupText(last, m[3], 1)))))),
                   \* clean(m.group(2)) if m.lastindex >= 2 else ""
                   clean(GroupText(last, m[3], 2))>>
        from_last(last) == captured(last, Search(ProCapture, last))
        from_pro_lines(pro_lines) ==
            IF pro_lines = <<>> THEN <<"", "">>
            ELSE from_last(StripBulletLead(pick_pro_line(pro_lines)))
        from_block(p_block) ==
            IF p_block = "" THEN <<"", "">>
            ELSE from_pro_lines(ProLines(StripNonEmpty(SplitLines(p_block))))
    IN  from_block(normalize_bullets(Or(pick_block(raw0, WbLabel("P"), NlClosing),
                                        pick_block(raw0, WbLabel("P"), EndZ))))

(***************************************************************************)
(* Parsing SOAP mentah                                                     *)
(***************************************************************************)
RECURSIVE BulletItems(_)
\* the loop over pen_block.splitlines(): strip, skip blank lines, drop the bullet lead
BulletItems(lines) ==
    IF lines = <<>> THEN <<>>
    ELSE LET line == Strip(Head(lines))
         IN  IF line = "" THEN BulletItems(Tail(lines))
             ELSE <<StripBulletLead(line)>> \o BulletItems(Tail(lines))

RECURSIVE DedupeSimple(_, _, _)
\* "dedupe sederhana": k = it.lower(); the item is appended when k is new
DedupeSimple(items, out, seen) ==
    IF items = <<>> THEN out
    ELSE LET it == Head(items)
             k  == Lower(it)
         IN  IF k \in seen THEN DedupeSimple(Tail(items), out, seen)
             ELSE DedupeSimple(Tail(items), Append(out, it), seen \cup {k})

RECURSIVE LastKamar(_, _)
\* for part in parts: if part.lower().startswith("kamar"): p.kamar = part
LastKamar(parts, kamar) ==
    IF parts = <<>> THEN kamar
    ELSE LastKamar(Tail(parts),
                   IF StartsWith(Lower(Head(parts)), "kamar") THEN Head(parts) ELSE kamar)

\* sapaan and rs
parse_header(raw1, p) ==
    LET sapaan(first_line) ==
            IF StartsWith(Lower(first_line), "assalamualaikum") THEN first_line ELSE p.sapaan
        first(lines) == IF lines # <<>> THEN Strip(lines[1]) ELSE ""
    IN  [p EXCEPT
            !.sapaan = sapaan(first(SplitLines(raw1))),
            !.rs = IF ~IsNone(Search(RsgmpUnhas, raw1)) THEN "RSGMP UNHAS"
                   ELSE Or(pick1(raw1, RsgmpGuess), @)]

\* ident and, from its parts, nama .. rm
parse_ident(raw1, p) ==
    LET fields(ident, parts) ==
            [p EXCEPT
                !.ident_line = ident,
                !.nama = IF Len(parts) >= 1 THEN Strip(Replace(parts[1], "An.", "An.")) ELSE @,
                !.jk = IF Len(parts) >= 2 THEN parts[2] ELSE @,
                !.umur = IF Len(parts) >= 3 THEN parts[3] ELSE @,
                !.pembiayaan = IF Len(parts) >= 4 THEN parts[4] ELSE @,
                !.jenis_perawatan =
                    IF Len(parts) >= 5 /\ Contains(Lower(parts[5]), "rawat") THEN parts[5] ELSE @,
                !.kamar = LastKamar(parts, @),
                !.rm = Or(pick1(raw1, RmNumber(TRUE)), pick1(raw1, RmNumber(FALSE)))]
        from(ident) == IF ident = "" THEN p ELSE fields(ident, StripNonEmpty(Split(ident, "/")))
    IN  from(Or(pick1(raw1, IdentSlashes), pick1(raw1, IdentTitle)))

\* O details: O_generalis, bb, tb, EO, IO
parse_o_block(o_block, p) ==
    LET number(txt) == IF txt # "" THEN ParseFloat(txt) ELSE 0
    IN  [p EXCEPT
            !.O_generalis =
                Or(normalize_bullets(pick_block(o_block, StatusGeneralis, StatusLokalis)),
                   normalize_bullets(pick_block(o_block, StatusGeneralis, NlLokalisOrEO))),
            !.bb = number(pick1(o_block, Measure("BB", "kg", FALSE))),
            !.tb = number(pick1(o_block, Measure("TB", "cm", FALSE))),
            !.EO = Or(normalize_bullets(pick_block(o_block, WbLabel("EO"), NlLabel("IO"))),
                      normalize_bullets(pick_block(o_block, WbLabelDot("E", "O"),
                                                   NlLabelDot("I", "O")))),
            !.IO = Or(normalize_bullets(pick_block(o_block, WbLabel("IO"), NlPemeriksaanOrA)),
                      normalize_bullets(pick_block(o_block, WbLabelDot("I", "O"),
                                                   NlPemeriksaanOrA)))]

\* Pemeriksaan penunjang as bullet items
parse_penunjang(pen_block, p) ==
    IF pen_block = "" THEN p
    ELSE [p EXCEPT !.penunjang_items = DedupeSimple(BulletItems(SplitLines(pen_block)), @, {})]

\* tindakan_guess, anestesi_guess
parse_guess(guess, p) == [p EXCEPT !.tindakan_guess = guess[1], !.anestesi_guess = guess[2]]

parse_raw_soap(raw0) ==
    LET parse(raw1) ==
            parse_guess(tindakan_from_p_block(raw1),
                [parse_penunjang(
                    normalize_bullets(pick_block(raw1, PemeriksaanPenunjang, NlLabel("A"))),
                    parse_o_block(pick_block(raw1, WbLabel("O"), NlLabel("A")),
                        [parse_ident(raw1, parse_header(raw1, NewParsedSoap)) EXCEPT
                            !.S = pick_block(raw1, WbLabel("S"), NlLabel("O")),
                            \* p.A, tidied by normalize_bullets at the end
                            !.A = normalize_bullets(pick_block(raw1, WbLabel("A"), NlLabel("P")))]))
                 EXCEPT
                    !.residen = split_residen_text(pick1(raw1, LabelLine("Residen", FALSE, FALSE))),
                    !.dpjp = clean(pick1(raw1, LabelLine("DPJP", FALSE, FALSE)))])
    IN  parse(Strip(raw0))

(***************************************************************************)
(* Minlap parser.  The dict it returns is a function whose domain is the   *)
(* set of keys the code has assigned.                                      *)
(***************************************************************************)
\* {}
EmptyDict == [k \in {} |-> ""]

\* d.get(k, default)
Get(d, k, default) == IF k \in DOMAIN d THEN d[k] ELSE default

\* str.strip("\n")
StripNl(s) ==
    LET nl == In({"\n"})
        a == RunLen(nl, s, 0, -1)
        b == CHOOSE j \in 0..Len(s) :
                 /\ \A k \in (j + 1)..Len(s) : At(s, k) = "\n"
                 /\ j = 0 \/ At(s, j) # "\n"
    IN  Slice(s, a, b)

\* Pemeriksaan\s+penunjang\s*:\s*(.*?)(?:\n\s*A\s*:|\n\s*P\s*:|\Z)  with re.DOTALL
MinlapPenunjang ==
    Cat(<<Lit("Pemeriksaan"), Ws1, Lit("penunjang"), Ws0, Lit(":"), Ws0,
          Group(1, Lazy(Star(DotAll))),
          Alt(<<Cat(<<Lit("\n"), Ws0, Lit("A"), Ws0, Lit(":")>>),
                Cat(<<Lit("\n"), Ws0, Lit("P"), Ws0, Lit(":")>>),
                EndZ>>)>>)

\* \bPro\b\s*(.+?)\s*(?:dalam\s+([^\n]+))?
MinlapPro ==
    Cat(<<Wb, Lit("Pro"), Wb, Ws0, Group(1, Lazy(Plus(Dot))), Ws0,
          Opt(Cat(<<Lit("dalam"), Ws1, Group(2, Plus(NotIn({"\n"})))>>))>>)

\* Pukul\s*:\s*\*?\s*(\d{1,2}[\.:]\d{2})\s*([A-Z]{3,4})\s*\*?
MinlapPukul ==
    Cat(<<Lit("Pukul"), Ws0, Lit(":"), Ws0, Opt(Lit("*")), Ws0,
          Group(1, Cat(<<Rep(Digit, 1, 2), In({".", ":"}), Rep(Digit, 2, 2)>>)),
          Ws0, Group(2, Rep(Letter, 3, 4)), Ws0, Opt(Lit("*"))>>)

parse_minlap(text) ==
    LET number(txt) == IF txt # "" THEN ParseFloat(txt) ELSE 0
        penunjang(t, m) ==
            IF IsNone(m) THEN EmptyDict
            ELSE [penunjang_raw |-> StripNl(Slice(t, m[1], m[2]))]
        pro(p_line, m2) ==
            IF IsNone(m2) THEN EmptyDict
            ELSE [tindakan |-> clean(GroupText(p_line, m2[3], 1)),
                  anestesi |-> clean(GroupText(p_line, m2[3], 2))]
        tindakan(p_line) == IF p_line = "" THEN EmptyDict ELSE pro(p_line, Search(MinlapPro, p_line))
        pukul(t, m3) ==
            IF IsNone(m3) THEN EmptyDict
            ELSE [jam_operasi |-> Replace(GroupText(t, m3[3], 1), ":", "."),
                  zona_waktu |-> Upper(GroupText(t, m3[3], 2))]
        parse(t) ==
            IF t = "" THEN EmptyDict
            ELSE [bb |-> number(pick1(t, Measure("BB", "kg", TRUE))),
                  tb |-> number(pick1(t, Measure("TB", "cm", TRUE))),
                  dpjp_anestesi |-> clean(pick1(t, DpjpAnestesi)),
                  sirkuler |-> clean(pick1(t, LabelLine("Sirkuler", TRUE, FALSE)))]
                 @@ penunjang(t, Search(MinlapPenunjang, t))
                 @@ tindakan(pick1(t, LabelLine("P", TRUE, TRUE)))
                 @@ pukul(t, Search(MinlapPukul, t))
    IN  parse(StripNl(text))

(***************************************************************************)
(* Output builder (Pre-Op)                                                 *)
(***************************************************************************)
\* "\n".join([f"<bullet>{x}" for x in items])
BulletLines(items) == Join("\n", [i \in 1..Len(items) |-> BULLET_SEQ \o items[i]])

\* [x for x in items if clean(x)]
NonBlank(items) == LET kept(x) == clean(x) # "" IN SelectSeq(items, kept)

\* (x + "\n\n" if x else "")
Para(x) == IF x # "" THEN x \o "\n\n" ELSE ""

pen_block_mut(penunjang_raw, penunjang_items) ==
    IF penunjang_items # <<>>
    THEN "Pemeriksaan penunjang :\n" \o BulletLines(penunjang_items) \o "\n\n"
    ELSE IF clean(penunjang_raw) # "" THEN RStrip(clean(penunjang_raw)) \o "\n\n"
    ELSE ""

\* pen_block: the raw block if it is not blank, else the bulleted items, else nothing
pen_block(penunjang_raw, penunjang_items) ==
    IF clean(penunjang_raw) # "" THEN RStrip(clean(penunjang_raw)) \o "\n\n"
    ELSE IF penunjang_items # <<>>
         THEN "Pemeriksaan penunjang :\n" \o BulletLines(penunjang_items) \o "\n\n"
         ELSE ""

A_text_mut(A) == IF Strip(A) # "" THEN BULLET_SEQ \o Strip(A) ELSE ""

\* A_text = p.A.strip(), with the bullet put before it if it has none
A_text(A) ==
    LET bulleted(text) ==
            IF text # "" /\ ~StartsWith(LStrip(text), BULLET) THEN BULLET_SEQ \o text ELSE text
    IN  bulleted(Strip(A))

meds_block_mut(meds_items) ==
    IF meds_items # <<>> THEN "\nMedikasi:\n" \o BulletLines(StripNonEmpty(meds_items)) \o "\n"
    ELSE ""

\* meds_block: the non-blank medications, bulleted, under "Medikasi:"
meds_block(meds_items) ==
    LET block(meds_lines) ==
            IF meds_lines # <<>> THEN "\nMedikasi:\n" \o BulletLines(meds_lines) \o "\n" ELSE ""
    IN  block(StripNonEmpty(meds_items))

build_preop(p, tanggal_laporan, tanggal_operasi, jam_operasi, zona_waktu, tindakan_line, anestesi, pembiayaan, jenis_perawatan, kamar, penunjang_items, penunjang_raw, plan_items, meds_items, residen, dpjp) ==
    LET header ==
            p.sapaan \o "\n" \o p.pembuka \o " pasien Rencana Operasi " \o p.rs \o " ("
            \o day_name_id(tanggal_laporan) \o ", " \o fmt_ddmmyyyy(tanggal_laporan) \o ")\n\n"
        ident ==
            p.nama \o " / " \o p.jk \o " / " \o p.umur \o " / " \o pembiayaan \o " / "
            \o jenis_perawatan \o " / " \o kamar \o " / " \o p.rs \o " / RM " \o p.rm \o "\n\n"
        tindakan_final ==
            BULLET_SEQ \o "Pro " \o tindakan_line \o " dalam " \o anestesi \o " pada hari "
            \o day_name_id(tanggal_operasi) \o ", " \o fmt_ddmmyyyy(tanggal_operasi)
            \o " Pukul " \o jam_operasi \o " " \o zona_waktu \o " di " \o p.rs
    IN  header
        \o ident
        \o "S: " \o p.S \o "\n\n"
        \o "O:\n"
        \o "Status Generalis:\n"
        \o Para(p.O_generalis)
        \o "Status Lokalis:\n"
        \o "EO:\n"
        \o Para(p.EO)
        \o "IO:\n"
        \o Para(p.IO)
        \o pen_block(penunjang_raw, penunjang_items)
        \o "A:\n"
        \o Para(A_text(p.A))
        \o "P:\n"
        \o BulletLines(NonBlank(plan_items)) \o "\n"
        \o tindakan_final \o "\n\n"
        \o meds_block(meds_items)
        \o "Mohon instruksi selanjutnya, Dokter.\n"
        \o "Terima kasih.\n\n"
        \o "Residen: " \o residen \o "\n\n"
        \o "DPJP: " \o dpjp \o "\n"

(***************************************************************************)
(* Streamlit UI.  Every interaction runs the script from its top through   *)
(* the three tabs.  A widget without a key returns what the user entered   *)
(* into it, and its value= argument while the user has not touched it.     *)
(***************************************************************************)
DPJP_PRESETS ==
    <<"drg. Husnul Basyar, Sp.B.M.Mf.",
      "drg. Abul Fauzi, Sp.B.M.Mf., Subsp.Tr.Mf.S.Tm.",
      "Dr. drg. Andi Tajrin, M.Kes., Sp.B.M.Mf., Subsp.C.O.Mf.">>

DEFAULT_PLAN_LIBRARY ==
    <<"ACC TS Anestesi",
      "IVFD (isi sesuai)",
      "Puasa pre-op (isi sesuai)",
      "Sikat gigi sebelum tidur & sebelum ke kamar operasi",
      "Gunakan masker bedah saat ke kamar operasi",
      "Antibiotik profilaksis (isi sesuai)",
      "Siap darah/PRC (jika perlu)">>


\* datetime.now(TZ).date(), the day the script runs
Today == [y |-> 2024, m |-> 2, d |-> 28]

\* st.text_input(label, value=default) and the other input widgets
Widget(w, name, default) == IF name \in DOMAIN w THEN w[name] ELSE default



\* the widgets of tab 2 whose value= comes from the parse of the SOAP and of the Minlap
tab2_form(parsed, minlap_info, w) ==
    [nama |-> Widget(w, "nama", parsed.nama),
     jk |-> Widget(w, "jk", parsed.jk),
     umur |-> Widget(w, "umur", parsed.umur),
     pembiayaan |-> Widget(w, "pembiayaan", Or(parsed.pembiayaan, "BPJS")),
     jenis_perawatan |-> Widget(w, "jenis_perawatan", "Rawat Inap"),
     kamar |-> Widget(w, "kamar", parsed.kamar),
     \* bb = st.number_input(...); if minlap_info.get("bb"): bb = float(minlap_info.get("bb", bb))
     bb |-> IF Get(minlap_info, "bb", 0) # 0 THEN minlap_info.bb ELSE Widget(w, "bb", parsed.bb),
     rm |-> Widget(w, "rm", parsed.rm),
     rs |-> Widget(w, "rs", Or(parsed.rs, "RSGMP UNHAS")),
     tanggal_laporan |-> Widget(w, "tanggal_laporan", Today),
     tanggal_operasi |-> Widget(w, "tanggal_operasi", NextDay(Today)),
     jam_operasi |-> Widget(w, "jam_operasi", Or(Get(minlap_info, "jam_operasi", ""), "08.00")),
     zona_waktu |-> Widget(w, "zona_waktu", Or(Get(minlap_info, "zona_waktu", ""), "WITA")),
     anestesi |-> Widget(w, "anestesi",
                         Or(Get(minlap_info, "anestesi", ""),
                            Or(parsed.anestesi_guess, "general anestesi"))),
     include_ivfd |-> Widget(w, "include_ivfd", TRUE),
     include_puasa |-> Widget(w, "include_puasa", TRUE),
     include_ab |-> Widget(w, "include_ab", TRUE),
     drip_factor |-> Widget(w, "drip_factor", 20),
     ivfd_cairan |-> Widget(w, "ivfd_cairan", "RL"),
     ab_nama |-> Widget(w, "ab_nama", "Ceftriaxone"),
     ab_dosis |-> Widget(w, "ab_dosis", "1 gr"),
     ab_skin_test |-> Widget(w, "ab_skin_test", TRUE),
     tindakan_line |-> Widget(w, "tindakan_line",
                              Or(Get(minlap_info, "tindakan", ""), parsed.tindakan_guess)),
     S |-> Widget(w, "S", parsed.S),
     O_generalis |-> Widget(w, "O_generalis", parsed.O_generalis),
     EO |-> Widget(w, "EO", parsed.EO),
     IO |-> Widget(w, "IO", parsed.IO),
     A |-> Widget(w, "A", parsed.A),
     penunjang_raw |-> Widget(w, "penunjang_raw", Get(minlap_info, "penunjang_raw", "")),
     penunjang_editor |-> Widget(w, "penunjang_editor", Join("\n", parsed.penunjang_items)),
     picked |-> Widget(w, "picked", <<DEFAULT_PLAN_LIBRARY[1], DEFAULT_PLAN_LIBRARY[4],
                                      DEFAULT_PLAN_LIBRARY[5]>>),
     custom_plan |-> Widget(w, "custom_plan", ""),
     meds_text |-> Widget(w, "meds_text", ""),
     residen_in |-> Widget(w, "residen_in", parsed.residen),
     dpjp_choice |-> Widget(w, "dpjp_choice", DPJP_PRESETS[1]),
     dpjp_custom |-> Widget(w, "dpjp_custom", parsed.dpjp)]

auto_time_mut(jam_operasi, minutes) ==
    LET of(op_parsed) == IF IsNone(op_parsed) THEN "" ELSE fmt_time(op_parsed[1], op_parsed[2])
    IN  of(parse_hhmm(jam_operasi))

\* default_puasa, default_ab: the operation time less the minutes, "" when it does not parse
auto_time(jam_operasi, minutes) ==
    LET less(t) == fmt_time(t[1], t[2])
        of(op_parsed) ==
            IF IsNone(op_parsed) THEN ""
            ELSE less(minus_minutes(op_parsed[1], op_parsed[2], minutes))
    IN  of(parse_hhmm(jam_operasi))

\* suggested_tpm of the IVFD block
suggested_tpm(bb, drip_factor) ==
    IF bb > 0
    THEN tpm_from_ml_per_hr(Py("float", maintenance_ml_per_hr_421(bb), ""),
                            Py("int", drip_factor * 1000, ""))
    ELSE 0

\* the widgets whose value= is computed from other widgets of the form f
tab2_auto(f, w) ==
    [puasa_mulai |-> IF f.include_puasa
                     THEN Widget(w, "puasa_mulai", auto_time(f.jam_operasi, 6 * 60)) ELSE "",
     ab_jam |-> IF f.include_ab
                THEN Widget(w, "ab_jam", auto_time(f.jam_operasi, 60)) ELSE "",
     ivfd_tpm |-> IF f.include_ivfd
                  THEN Widget(w, "ivfd_tpm", suggested_tpm(f.bb, f.drip_factor)) ELSE 0]
    @@ f

\* ivfd_line
ivfd_line(f) ==
    LET drip_label == IF f.drip_factor = 20 THEN "makrodrips" ELSE "mikrodrips"
    IN  IF ~f.include_ivfd THEN ""
        ELSE IF f.ivfd_tpm > 0
             THEN "IVFD " \o f.ivfd_cairan \o " " \o IntToStr(f.ivfd_tpm) \o " tpm (" \o drip_label \o ")"
             ELSE "IVFD " \o f.ivfd_cairan \o " (isi tpm) (" \o drip_label \o ")"

\* the "Puasa 6 jam" line
puasa_line(f) ==
    "Puasa 6 jam pre op atau sesuai instruksi dari TS. Anestesi yaitu mulai Pukul "
    \o f.puasa_mulai \o " " \o f.zona_waktu

\* the antibiotic line
ab_line(f) ==
    LET ab_display(x) == IF x = "" THEN "(isi antibiotik)" ELSE x
        skin_phrase == IF f.ab_skin_test THEN " (skin test terlebih dahulu)" ELSE ""
    IN  "Pasien rencana diberikan antibiotik profilaksis "
        \o ab_display(Join(" ", StripNonEmpty(<<f.ab_nama, f.ab_dosis>>)))
        \o ", 1 jam sebelum operasi" \o skin_phrase \o " pada Pukul " \o f.ab_jam \o " " \o f.zona_waktu

\* plan_lines before the dedupe: the picked plans, the custom lines, the three automatic lines
plan_lines_raw(f) ==
    LET line(wanted, text) == IF wanted THEN <<text>> ELSE <<>>
        ivfd(text) == line(f.include_ivfd /\ text # "", text)
    IN  f.picked
        \o StripNonEmpty(SplitLines(f.custom_plan))
        \o ivfd(ivfd_line(f))
        \o line(f.include_puasa /\ clean(f.puasa_mulai) # "", puasa_line(f))
        \o line(f.include_ab /\ clean(f.ab_jam) # "", ab_line(f))

\* plan_lines = dedupe_case_insensitive(plan_lines)
plan_lines(f) == dedupe_case_insensitive(plan_lines_raw(f))

\* the dict stored as st.session_state["edited"]
edited(f, minlap_info) ==
    [nama |-> f.nama, jk |-> f.jk, umur |-> f.umur, pembiayaan |-> f.pembiayaan,
     jenis_perawatan |-> f.jenis_perawatan, kamar |-> f.kamar, rm |-> f.rm, rs |-> f.rs,
     tanggal_laporan |-> f.tanggal_laporan, tanggal_operasi |-> f.tanggal_operasi,
     jam_operasi |-> f.jam_operasi, zona_waktu |-> f.zona_waktu,
     anestesi |-> f.anestesi, tindakan_line |-> f.tindakan_line,
     S |-> f.S, O_generalis |-> f.O_generalis, EO |-> f.EO, IO |-> f.IO, A |-> f.A,
     penunjang_items |-> dedupe_case_insensitive(NonBlank(SplitLines(f.penunjang_editor))),
     penunjang_raw |-> f.penunjang_raw,
     plan_lines |-> plan_lines(f),
     residen |-> split_residen_text(f.residen_in),
     dpjp |-> Or(Strip(f.dpjp_custom), f.dpjp_choice),
     bb |-> f.bb,
     meds_items |-> StripNonEmpty(SplitLines(f.meds_text)),
     dpjp_anestesi |-> Get(minlap_info, "dpjp_anestesi", ""),
     sirkuler |-> Get(minlap_info, "sirkuler", "")]

\* st.number_input raises when value= is above max_value: the run stops there
tab2_raises(parsed, f) ==
    \/ parsed.bb > 200 * 1000
    \/ f.include_ivfd /\ suggested_tpm(f.bb, f.drip_factor) > 200

\* st.session_state[key] = value
SetItem(ss, key, value) == (key :> value) @@ ss

\* st.session_state["edited"] = {...}
store_edited_mut(ss, e) == SetItem(SetItem(ss, "edited", e), "parsed", [NewParsedSoap EXCEPT !.nama = e.nama])

store_edited(ss, e) == SetItem(ss, "edited", e)

\* st.session_state.get("parsed", ParsedSoap(penunjang_items=[]))
get_parsed(ss) == Get(ss, "parsed", NewParsedSoap)

\* tab 2 from its first line to the store of "edited"; the session_state it leaves
tab2(ss, w) ==
    LET stored(parsed, minlap_info, f) ==
            IF tab2_raises(parsed, f) THEN ss ELSE store_edited(ss, edited(f, minlap_info))
        form(parsed, minlap_info) ==
            stored(parsed, minlap_info, tab2_auto(tab2_form(parsed, minlap_info, w), w))
    IN  form(get_parsed(ss), parse_minlap(Get(ss, "minlap_text_cache", "")))

\* the form tab 2 shows for the session_state ss and the user's entries w
form_of(ss, w) ==
    tab2_auto(tab2_form(get_parsed(ss), parse_minlap(Get(ss, "minlap_text_cache", "")), w), w)

\* p2 = ParsedSoap(sapaan=parsed.sapaan, ..., dpjp=edited["dpjp"])
p2(parsed, e) ==
    [ParsedSoap EXCEPT
        !.sapaan = parsed.sapaan, !.pembuka = parsed.pembuka,
        !.rs = e.rs, !.nama = e.nama, !.jk = e.jk, !.umur = e.umur,
        !.pembiayaan = e.pembiayaan, !.jenis_perawatan = e.jenis_perawatan,
        !.kamar = e.kamar, !.rm = e.rm,
        !.S = e.S, !.O_generalis = e.O_generalis, !.EO = e.EO, !.IO = e.IO,
        !.penunjang_items = e.penunjang_items, !.A = e.A,
        !.residen = e.residen, !.dpjp = e.dpjp]

\* output = build_preop(p=p2, ...) of tab 3
tab3(parsed, e) ==
    build_preop(p2(parsed, e), e.tanggal_laporan, e.tanggal_operasi, e.jam_operasi, e.zona_waktu,
                Or(e.tindakan_line, "(isi tindakan)"), e.anestesi, e.pembiayaan,
                e.jenis_perawatan, Or(e.kamar, "(isi kamar/bed)"), e.penunjang_items,
                e.penunjang_raw, e.plan_lines, e.meds_items, Or(e.residen, "-"), Or(e.dpjp, "-"))

parse_if_needed_mut(ss, raw_text) ==
    LET parse(s) ==
            IF Strip(raw_text) # "" /\ raw_text # s.raw_prev
            THEN SetItem(s, "parsed", parse_raw_soap(raw_text))
            ELSE s
    IN  parse(IF "raw_prev" \in DOMAIN ss THEN ss ELSE SetItem(ss, "raw_prev", ""))

\* parse_if_needed(raw_text): the session_state it leaves
parse_if_needed(ss, raw_text) ==
    LET parse(s) ==
            IF Strip(raw_text) # "" /\ raw_text # s.raw_prev
            THEN SetItem(SetItem(s, "parsed", parse_raw_soap(raw_text)), "raw_prev", raw_text)
            ELSE s
    IN  parse(IF "raw_prev" \in DOMAIN ss THEN ss ELSE SetItem(ss, "raw_prev", ""))

\* tab 1: the Minlap cache, parse_if_needed and the "Parse ulang" button
tab1(ss, raw_text, minlap, parse_ulang) ==
    LET pressed(s) ==
            IF parse_ulang /\ Strip(raw_text) # ""
            THEN SetItem(SetItem(s, "parsed", parse_raw_soap(raw_text)), "raw_prev", raw_text)
            ELSE s
    IN  pressed(parse_if_needed(SetItem(ss, "minlap_text_cache", minlap), raw_text))

\* reset_all(): every key of st.session_state is deleted
reset_all(ss) == [k \in {} |-> ""]

(***************************************************************************)
(* The pure-function harness: Init draws a function and its arguments,     *)
(* the Apply actions compute the result.                                   *)
(***************************************************************************)
\* every concatenation of at most n members of the set alphabet
TextsUpTo(alphabet, n) == UNION {{Join("", f) : f \in [1..k -> alphabet]} : k \in 0..n}

\* every list of at most n members of the set items
ListsUpTo(items, n) == UNION {[1..k -> items] : k \in 0..n}

TimeAlphabet == {"0", "2", "6", ".", ":", " "}
TimeTexts == TextsUpTo(TimeAlphabet, MaxTimeLen) \cup {"08.00", "8:0", "23.59", "24.00", "12:60", " 7.05\n"}

MinuteSamples == {0, 1, 59, 60, 61, 300, 360, 1439, 1440, 1441, MaxMinutes, 2 * MaxMinutes}

\* body weights in thousandths of a kg, a quarter of a kg apart, from -2 kg on
WeightSamples == {k * 250 : k \in -8..(4 * MaxWeightKg)}

\* rates and drip factors handed to tpm_from_ml_per_hr: numbers, texts, nan and None
RateSamples ==
    {Py("float", k * 250, "") : k \in -8..(4 * MaxRate)}
    \cup {Py("int", 65000, ""), Py("str", 0, "65"), Py("str", 0, " 7.5 "), Py("str", 0, "abc"),
          Py("str", 0, ""), Py("float", 0, "nan"), Py("NoneType", 0, "")}

DripSamples ==
    {Py("int", 20000, ""), Py("int", 60000, ""), Py("int", 15000, ""), Py("int", 0, ""),
     Py("float", 2500, ""), Py("str", 0, "20"), Py("str", 0, "2.5"), Py("str", 0, "makro"),
     Py("float", 0, "nan"), Py("NoneType", 0, "")}

DedupeItems == {"", " ", "a", "A", " a", "b ", "B"}
DedupeLists == ListsUpTo(DedupeItems, MaxListLen)


SessionInit ==
    /\ session_state = EmptyDict
    /\ raw = ""
    /\ minlap_text = ""
    /\ widgets = EmptyDict
    /\ button = "none"
    /\ output = ""

CalcArgs(f) ==
    CASE f = "parse_hhmm" -> {<<s>> : s \in TimeTexts}
      [] f = "minus_minutes" -> (0..23) \X (0..59) \X MinuteSamples
      [] f = "dedupe_case_insensitive" -> {<<l>> : l \in DedupeLists}
      [] f = "tab2" -> {<<s>> : s \in TimeTexts}
      [] f = "maintenance_ml_per_hr_421" -> {<<w>> : w \in WeightSamples}
      [] f = "tpm_from_ml_per_hr" -> RateSamples \X DripSamples

CalcFns ==
    {"parse_hhmm", "minus_minutes", "dedupe_case_insensitive", "tab2",
     "maintenance_ml_per_hr_421", "tpm_from_ml_per_hr"}

InitCalc ==
    /\ SessionInit
    /\ pc = "call"
    /\ fn \in CalcFns
    /\ arg \in CalcArgs(fn)
    /\ ret = None

Return(f, value) ==
    /\ pc = "call"
    /\ fn = f
    /\ ret' = value
    /\ pc' = "return"
    /\ UNCHANGED <<sessionVars, fn, arg>>

Apply_parse_hhmm == Return("parse_hhmm", parse_hhmm(arg[1]))

Apply_minus_minutes == Return("minus_minutes", minus_minutes(arg[1], arg[2], arg[3]))

Apply_dedupe_case_insensitive ==
    Return("dedupe_case_insensitive", dedupe_case_insensitive(arg[1]))

\* tab 2 of a fresh session in which the user has typed arg[1] into "Jam operasi"
Apply_tab2 == Return("tab2", tab2(EmptyDict, "jam_operasi" :> arg[1]))

Apply_maintenance_ml_per_hr_421 ==
    Return("maintenance_ml_per_hr_421", maintenance_ml_per_hr_421(arg[1]))

Apply_tpm_from_ml_per_hr ==
    Return("tpm_from_ml_per_hr", tpm_from_ml_per_hr(arg[1], arg[2]))

NextCalc ==
    \/ Apply_parse_hhmm
    \/ Apply_minus_minutes
    \/ Apply_dedupe_case_insensitive
    \/ Apply_tab2
    \/ Apply_maintenance_ml_per_hr_421
    \/ Apply_tpm_from_ml_per_hr

SpecCalc == InitCalc /\ [][NextCalc]_vars

(***************************************************************************)
(* The text harness: pick_block, tindakan_from_p_block, parse_raw_soap.    *)
(***************************************************************************)
SoapFooBar == "S: foo\nO: bar\nA: baz\nP: ..."

BlockTokens == {"S:", "O:", "\n", " ", "foo", "s", ":"}
BlockTexts == TextsUpTo(BlockTokens, MaxTokens) \cup {SoapFooBar, "RS: x\nS : a b \n\n o :c"}

ProInsisi == "Pro insisi dalam general anestesi"
ProOdontektomi == BULLET \o " Pro odontektomi menunggu penjadwalan"

ProLineChoices == {ProInsisi, ProOdontektomi, "ACC TS Anestesi", "Profilaksis antibiotik"}

ProTexts ==
    {"A: abses\nP:\n" \o Join("\n", ls) \o closing :
        ls \in ListsUpTo(ProLineChoices, MaxProLines),
        closing \in {"", "\nResiden: drg. Pro X"}}
    \cup {"S: Pro insisi\nO: baik", ""}

ScenarioText ==
    "An. Fikri / L / 8 Tahun ... RM 123 ... S: demam O: KU baik A: abses P: Pro insisi dalam general anestesi"

Segment(k) ==
    CASE k = 1 -> "An. Fikri"
      [] k = 2 -> "L"
      [] k = 3 -> "8 Tahun"
      [] k = 4 -> "BPJS"
      [] k = 5 -> "Rawat Inap"
      [] k = 6 -> "Kamar 2"
      [] k = 7 -> "RSGMP Unhas"
      [] OTHER -> "RM 123"

\* a SOAP whose identity line has n segments; lead: a greeting line comes first
IdentText(n, lead) ==
    (IF lead THEN "Assalamualaikum, Dokter.\n" ELSE "")
    \o Join(" / ", [k \in 1..n |-> Segment(k)])
    \o "\nRM 123\nS: demam\nO: KU baik\nA: abses\nP: Pro insisi dalam general anestesi"

BulletOnlyText ==
    "Tn. A / L / 30 Tahun\nS: nyeri\nO: baik\nPemeriksaan Penunjang:\n"
    \o BULLET \o "\n" \o BULLET \o " OPG\nopg \nA: impaksi\nP: Pro odontektomi"

RawSamples ==
    {"", " \n ", ScenarioText, SoapFooBar, BulletOnlyText,
     "x\nNy. Siti / P / 30 th / Umum / Rawat Jalan\nRM. 12.3\nO: BB: 49.5 kg, TB 159 cm\nResiden: drg. A\ndrg. B\nDPJP: drg. X"}
    \cup {IdentText(n, lead) : n \in 1..MaxSegments, lead \in BOOLEAN}

TextArgs(f) ==
    CASE f = "pick_block" -> {<<t>> : t \in BlockTexts}
      [] f = "tindakan_from_p_block" -> {<<t>> : t \in ProTexts}
      [] f = "parse_raw_soap" -> {<<t>> : t \in RawSamples}

TextFns == {"pick_block", "tindakan_from_p_block", "parse_raw_soap"}

InitText ==
    /\ SessionInit
    /\ pc = "call"
    /\ fn \in TextFns
    /\ arg \in TextArgs(fn)
    /\ ret = None

\* p.S = pick_block(raw, r"\bS\s*:\s*", r"\n\s*O\s*:\s*")
Apply_pick_block == Return("pick_block", pick_block(arg[1], WbLabel("S"), NlLabel("O")))

Apply_tindakan_from_p_block ==
    Return("tindakan_from_p_block", tindakan_from_p_block(arg[1]))

Apply_parse_raw_soap == Return("parse_raw_soap", parse_raw_soap(arg[1]))

NextText ==
    \/ Apply_pick_block
    \/ Apply_tindakan_from_p_block
    \/ Apply_parse_raw_soap

SpecText == InitText /\ [][NextText]_vars

(***************************************************************************)
(* The render harness: build_preop.                                        *)
(***************************************************************************)
MinlapSample ==
    "1. Ny. Siti\nPerempuan BB: 49 kg, TB: 159 cm\nPemeriksaan penunjang :\n- OPG\n  Kesan : baik\n"
    \o "A : abses\nP : Pro insisi dalam general anestesi\nPukul : *09.30 WITA*\n"
    \o "DPJP Anestesi: dr. Y\nSirkuler : drg. Z"

\* raw supporting-exam blocks: none, blank, indented lines, the block parse_minlap keeps
RenderRaw ==
    {"", " \n", "Pemeriksaan penunjang :\n- OPG\n    Kesan : baik\n\n- Lab  darah ",
     "  - OPG\n      Kesan : baik\n", parse_minlap(MinlapSample).penunjang_raw}

RenderItems == {<<>>, <<"OPG">>, <<"Thorax", "Lab darah">>}

\* assessments: none, blank, plain, with the bullet glyph, with the glyph sequence, two lines
RenderA ==
    {"", " \n", "abses", BULLET \o " abses", BULLET_SEQ \o "abses", " " \o BULLET_SEQ \o "abses \n",
     BULLET_SEQ \o "abses\n" \o BULLET_SEQ \o "impaksi"}

RenderPlans == {<<>>, <<"ACC TS Anestesi">>, <<"ACC TS Anestesi", " ", "Siap darah">>}

RenderMeds == {<<>>, <<" ">>, <<"Amoxicillin 500 mg">>, <<"", " Amoxicillin 500 mg ", "Metronidazole">>}

\* the edited models: each narrative section empty or filled
RenderModels ==
    {[NewParsedSoap EXCEPT !.nama = "Tn. A", !.S = so[1], !.O_generalis = so[2],
                           !.EO = eo[1], !.IO = eo[2], !.A = a] :
        so \in {<<"", "">>, <<"nyeri", "KU baik\nGCS 15">>},
        eo \in {<<"", "">>, <<"edema", "karies">>}, a \in RenderA}

InitRender ==
    /\ SessionInit
    /\ pc = "call"
    /\ fn = "build_preop"
    /\ arg \in RenderModels \X RenderItems \X RenderRaw \X RenderPlans \X RenderMeds
    /\ ret = None

\* output = build_preop(p=p2, ...) with the defaults of tab 2 for date, time and place
Apply_build_preop ==
    Return("build_preop",
           build_preop(arg[1], Today, NextDay(Today), "08.00", "WITA", "insisi", "general anestesi",
                       "BPJS", "Rawat Inap", "(isi kamar/bed)", arg[2], arg[3], arg[4], arg[5],
                       "drg. A", DPJP_PRESETS[1]))

NextRender == Apply_build_preop

SpecRender == InitRender /\ [][NextRender]_vars

(***************************************************************************)
(* The session: the user pastes, edits and presses buttons while the       *)
(* script is idle; each interaction starts a run of the script.            *)
(***************************************************************************)
SoapRawatJalan ==
    "Assalamualaikum, Dokter.\nNy. Siti / P / 30 th / Umum / Rawat Jalan\nRM. 12.3\nS: nyeri\n"
    \o "O: BB 52.5 kg, TB 159 cm\nA: " \o BULLET \o JOINER \o " abses\n"
    \o "P: Pro insisi dalam lokal anestesi\nResiden: drg. A\nDPJP: drg. X"

RawTexts == {"", BulletOnlyText, SoapRawatJalan}

MinlapTexts == {"", MinlapSample}

\* what the user may enter into the widgets of tab 2
EditChoices ==
    [nama |-> {"Tn. B"},
     bb |-> {60 * 1000},
     jam_operasi |-> {"5:30"},
     penunjang_editor |-> {"OPG\n opg \n\n Lab "},
     custom_plan |-> {"acc ts anestesi\n Siap darah "}]

Init ==
    /\ SessionInit
    /\ pc = "top"
    /\ fn = ""
    /\ arg = <<>>
    /\ ret = None

Interact == pc = "idle" /\ pc' = "top" /\ UNCHANGED <<session_state, output, fn, arg, ret>>

\* the user replaces the text of the SOAP text area
Paste(text) ==
    /\ Interact
    /\ text # raw
    /\ raw' = text
    /\ button' = "none"
    /\ UNCHANGED <<minlap_text, widgets>>

\* the user replaces the text of the Minlap text area
PasteMinlap(text) ==
    /\ Interact
    /\ text # minlap_text
    /\ minlap_text' = text
    /\ button' = "none"
    /\ UNCHANGED <<raw, widgets>>

\* the user enters a value into a widget of tab 2
Edit(name, value) ==
    /\ Interact
    /\ Cardinality(DOMAIN widgets \cup {name}) <= MaxEdits
    /\ widgets' = (name :> value) @@ widgets
    /\ widgets' # widgets
    /\ button' = "none"
    /\ UNCHANGED <<raw, minlap_text>>

PressReset == Interact /\ button' = "reset" /\ UNCHANGED <<raw, minlap_text, widgets>>

PressParseUlang == Interact /\ button' = "parse_ulang" /\ UNCHANGED <<raw, minlap_text, widgets>>

\* the top bar: if st.button("Reset"): reset_all(); st.rerun()
TopBar ==
    /\ pc = "top"
    /\ IF button = "reset"
       THEN session_state' = reset_all(session_state) /\ button' = "none" /\ pc' = "top"
       ELSE pc' = "tab1" /\ UNCHANGED <<session_state, button>>
    /\ UNCHANGED <<raw, minlap_text, widgets, output, fn, arg, ret>>

Tab1 ==
    /\ pc = "tab1"
    /\ session_state' = tab1(session_state, raw, minlap_text, button = "parse_ulang")
    /\ pc' = "tab2"
    /\ UNCHANGED <<raw, minlap_text, widgets, button, output, fn, arg, ret>>

\* a run that raises in tab 2 stops there
Tab2 ==
    /\ pc = "tab2"
    /\ session_state' = tab2(session_state, widgets)
    /\ pc' = IF "edited" \in DOMAIN session_state' THEN "tab3" ELSE "idle"
    /\ UNCHANGED <<raw, minlap_text, widgets, button, output, fn, arg, ret>>

Tab3 ==
    /\ pc = "tab3"
    /\ output' = IF "edited" \in DOMAIN session_state
                 THEN tab3(get_parsed(session_state), session_state.edited)
                 ELSE output
    /\ pc' = "idle"
    /\ UNCHANGED <<session_state, raw, minlap_text, widgets, button, fn, arg, ret>>

Next ==
    \/ \E text \in RawTexts : Paste(text)
    \/ \E text \in MinlapTexts : PasteMinlap(text)
    \/ \E name \in DOMAIN EditChoices : \E value \in EditChoices[name] : Edit(name, value)
    \/ PressReset
    \/ PressParseUlang
    \/ TopBar
    \/ Tab1
    \/ Tab2
    \/ Tab3

Spec == Init /\ [][Next]_vars

(***************************************************************************)
(* Properties of the session                                               *)
(***************************************************************************)
\* the run has just stored "edited" from the widgets as they are now
EditStepDone == pc = "tab3" /\ "edited" \in DOMAIN session_state

\* the IVFD line tab 2 would build were the body weight bb
IvfdLineFor(bb) ==
    LET line(f) == ivfd_line(tab2_auto([f EXCEPT !.bb = bb], widgets))
    IN  line(form_of(session_state, widgets))

InSeq(x, items) == \E i \in 1..Len(items) : items[i] = x

\* C1: after the edit step, every field of "edited" the user has entered a value for
\* holds the user's value, and the IVFD line of the plan is the one suggested for the
\* body weight the user entered
C1_UserValueSupersedes ==
    EditStepDone =>
        /\ \A name \in DOMAIN widgets \cap DOMAIN session_state.edited :
               session_state.edited[name] = widgets[name]
        /\ "bb" \in DOMAIN widgets =>
               InSeq(IvfdLineFor(widgets.bb), session_state.edited.plan_lines)

\* the stored parsed model, <<>> when the session holds none
StoredParsed(ss) == IF "parsed" \in DOMAIN ss THEN <<ss.parsed>> ELSE <<>>

\* C2: a step changes the parsed model of the session only when it is the parse step
\* of tab 1, which stores parse_raw_soap of the text of the SOAP text area, or the
\* reset, which leaves the session without one; the edit step (tab 2) and the render
\* step (tab 3) leave it as it is
C2_ParsedChangedOnlyByParseOrReset ==
    [][StoredParsed(session_state') # StoredParsed(session_state) =>
           \/ pc = "tab1" /\ StoredParsed(session_state') = <<parse_raw_soap(raw)>>
           \/ pc = "top" /\ button = "reset" /\ StoredParsed(session_state') = <<>>]_vars

\* a rendered session whose parsed model is still the parse of the SOAP text although
\* the user has entered another name in tab 2
C2_Witness ==
    /\ pc = "idle"
    /\ output # ""
    /\ "nama" \in DOMAIN widgets
    /\ "parsed" \in DOMAIN session_state
    /\ session_state.edited.nama # session_state.parsed.nama
    /\ session_state.parsed = parse_raw_soap(raw)

\* no empty item, every item trimmed, no two items equal but for case
WellFormed(items) ==
    \A i \in 1..Len(items) :
        /\ items[i] # ""
        /\ items[i] = Strip(items[i])
        /\ \A j \in 1..Len(items) : j # i => Lower(items[j]) # Lower(items[i])

\* the trimmed non-empty lines, each at the place it is first seen (case apart)
FirstSeen(lines) ==
    LET keep == {i \in 1..Len(lines) :
                    /\ Strip(lines[i]) # ""
                    /\ \A j \in 1..(i - 1) : Lower(Strip(lines[j])) # Lower(Strip(lines[i]))}
        nth(k) == CHOOSE i \in keep : Cardinality({j \in keep : j <= i}) = k
    IN  [k \in 1..Cardinality(keep) |-> Strip(lines[nth(k)])]

\* C7: in every state the item list of the parsed model, the item list of "edited" and
\* the plan lines of "edited" hold no empty item, hold trimmed items and hold no two
\* items equal but for case; after the edit step the two lists of "edited" are the
\* lines entered, in the order in which each is first seen
C7_ItemListsWellFormed ==
    /\ "parsed" \in DOMAIN session_state => WellFormed(session_state.parsed.penunjang_items)
    /\ "edited" \in DOMAIN session_state =>
           /\ WellFormed(session_state.edited.penunjang_items)
           /\ WellFormed(session_state.edited.plan_lines)
    /\ EditStepDone =>
           LET ordered(f) ==
                   /\ session_state.edited.penunjang_items = FirstSeen(SplitLines(f.penunjang_editor))
                   /\ session_state.edited.plan_lines = FirstSeen(plan_lines_raw(f))
           IN  ordered(form_of(session_state, widgets))

Returned(f) == pc = "return" /\ fn = f

(***************************************************************************)
(* C3: parse_raw_soap never fails.  On an empty or all-white-space input   *)
(* it returns a ParsedSoap whose text fields are empty but for sapaan,     *)
(* pembuka and rs, which hold their fixed defaults; bb and tb are 0 and    *)
(* penunjang_items is the empty list.                                      *)
(***************************************************************************)
TextFields == DOMAIN ParsedSoap \ {"bb", "tb", "penunjang_items"}
DefaultedFields == {"sapaan", "pembuka", "rs"}

C4_IdentityScenario ==
    (Returned("parse_raw_soap") /\ arg[1] = ScenarioText) =>
        /\ ret.nama = "Fikri"
        /\ ret.jk = "L"
        /\ ret.umur = "8 Tahun"
        /\ ret.rm = "123"
        /\ ret.tindakan_guess = "insisi"
        /\ ret.anestesi_guess = "general anestesi"

(***************************************************************************)
(* C5: tindakan_from_p_block takes the procedure and the anesthesia from   *)
(* the last line of the P section that holds the token Pro: the result is  *)
(* that of a P section made of this line alone, whatever Pro lines come    *)
(* before it, and ("", "") when no line of the P section holds the token   *)
(* or there is no P section.                                               *)
(***************************************************************************)
\* the P section: from the P label to the closing labels, or to the end
C5_PSection(raw0) ==
    normalize_bullets(Or(pick_block(raw0, WbLabel("P"), NlClosing),
                         pick_block(raw0, WbLabel("P"), EndZ)))

\* the token Pro, in any case, with no word character on either side
C5_HasPro(line) ==
    \E i \in 0..(Len(line) - 3) :
        /\ Lower(Slice(line, i, i + 3)) = "pro"
        /\ ~IsWord(At(line, i))
        /\ ~IsWord(At(line, i + 4))

C5_LastProLine ==
    Returned("tindakan_from_p_block") =>
        LET lines == SplitLines(C5_PSection(arg[1]))
            pro == {k \in 1..Len(lines) : C5_HasPro(lines[k])}
            last == CHOOSE k \in pro : \A j \in pro : j <= k
        IN  /\ pro = {} => ret = <<"", "">>
            /\ pro # {} => ret = tindakan_from_p_block("P: " \o lines[last])
            /\ arg[1] = "A: abses\nP:\n" \o ProInsisi \o "\n" \o ProOdontektomi
                    => ret = <<"odontektomi", "">>
            /\ arg[1] = "A: abses\nP:\n" \o ProOdontektomi \o "\n" \o ProInsisi
                    => ret = <<"insisi", "general anestesi">>

\* two Pro lines: the later one gave the procedure
C5_Witness ==
    /\ Returned("tindakan_from_p_block")
    /\ arg[1] = "A: abses\nP:\n" \o ProInsisi \o "\n" \o ProOdontektomi
    /\ ret = <<"odontektomi", "">>

(***************************************************************************)
(* C6: pick_block returns the white-space-trimmed text between the first   *)
(* match of the start label and the next match of the end label after it,  *)
(* or through the end of the text when no end label follows, and the empty *)
(* string when the start label is absent.  Stated for the labels of the S  *)
(* section: start \bS\s*:\s* and end \n\s*O\s*:\s*.                       *)
(***************************************************************************)
\* text[i:j] is white space only
C6_Blank(text, i, j) == \A k \in (i + 1)..j : At(text, k) \in WS

\* the offsets at which the start label begins
C6_Starts(text) ==
    {a \in 0..(Len(text) - 1) :
        /\ Lower(At(text, a + 1)) = "s"
        /\ ~IsWord(At(text, a))
        /\ \E c \in (a + 1)..(Len(text) - 1) : At(text, c + 1) = ":" /\ C6_Blank(text, a + 1, c)}

\* the offset at which the start label beginning at a is over
C6_StartEnd(text, a) ==
    LET c == CHOOSE c \in (a + 1)..(Len(text) - 1) : At(text, c + 1) = ":" /\ C6_Blank(text, a + 1, c)
    IN  CHOOSE b \in (c + 1)..Len(text) : C6_Blank(text, c + 1, b) /\ ~At(text, b + 1) \in WS

\* the offsets, from b on, at which the end label begins
C6_Ends(text, b) ==
    {e \in b..(Len(text) - 1) :
        /\ At(text, e + 1) = "\n"
        /\ \E o \in (e + 1)..(Len(text) - 1) :
              /\ C6_Blank(text, e + 1, o)
              /\ Lower(At(text, o + 1)) = "o"
              /\ \E c \in (o + 1)..(Len(text) - 1) : At(text, c + 1) = ":" /\ C6_Blank(text, o + 1, c)}

C6_Min(S) == CHOOSE x \in S : \A y \in S : x <= y

C6_Between(text) ==
    IF C6_Starts(text) = {} THEN ""
    ELSE LET b == C6_StartEnd(text, C6_Min(C6_Starts(text)))
             ends == C6_Ends(text, b)
         IN  Strip(Slice(text, b, IF ends = {} THEN Len(text) ELSE C6_Min(ends)))

C6_PickBlockBetweenLabels ==
    Returned("pick_block") =>
        /\ ret = C6_Between(arg[1])
        /\ arg[1] = SoapFooBar => ret = "foo"

\* the scenario of the claim: S is "foo"
C6_Witness ==
    /\ Returned("pick_block")
    /\ arg[1] = SoapFooBar
    /\ ret = "foo"

(***************************************************************************)
(* C8: dedupe_case_insensitive is idempotent: applying it to its own       *)
(* result gives that result back, for every list L.                        *)
(***************************************************************************)
C8_DedupeIdempotent ==
    Returned("dedupe_case_insensitive") => dedupe_case_insensitive(ret) = ret

\* a list with a blank, an untrimmed item and a case variant was reduced
C8_Witness ==
    /\ Returned("dedupe_case_insensitive")
    /\ arg[1] = <<" a", "A", " ">>
    /\ ret = <<"a">>

(***************************************************************************)
(* C9: minus_minutes wraps modulo 1440: the result (h', m') has            *)
(* 0 <= h' <= 23, 0 <= m' <= 59 and h'*60 + m' is the residue of           *)
(* hour*60 + minute - N modulo 1440; (8,0,360) gives (2,0) and (0,30,60)   *)
(* gives (23,30).                                                          *)
(***************************************************************************)
C9_MinusMinutesWraps ==
    Returned("minus_minutes") =>
        /\ ret[1] \in 0..23
        /\ ret[2] \in 0..59
        /\ \E q \in -3..3 : arg[1] * 60 + arg[2] - arg[3] = q * 1440 + ret[1] * 60 + ret[2]
        /\ (arg = <<8, 0, 360>> => ret = <<2, 0>>)
        /\ (arg = <<0, 30, 60>> => ret = <<23, 30>>)

\* the midnight wrap happened
C9_Witness == Returned("minus_minutes") /\ arg = <<0, 30, 60>> /\ ret = <<23, 30>>

(***************************************************************************)
(* C10: parse_hhmm returns (hour, minute) exactly when the trimmed text is *)
(* 1-2 digits, '.' or ':', 1-2 digits, with hour in 0..23 and minute in    *)
(* 0..59, and None for every other text; a returned pair is in range.      *)
(***************************************************************************)
AllDigits(t) == t # "" /\ \A i \in 1..Len(t) : SubSeq(t, i, i) \in {"0", "1", "2", "3", "4", "5", "6", "7", "8", "9"}

Decimal(t) ==
    LET d(i) == CHOOSE v \in 0..9 : SubSeq("0123456789", v + 1, v + 1) = SubSeq(t, i, i)
    IN  IF Len(t) = 1 THEN d(1) ELSE 10 * d(1) + d(2)

\* the (hour, minute) pairs the claim allows for text s: one pair or none
TimeReadings(s) ==
    LET t == Strip(s) IN
    {<<Decimal(SubSeq(t, 1, i)), Decimal(SubSeq(t, i + 2, Len(t)))>> :
        i \in {k \in 1..2 : /\ Len(t) - k - 1 \in 1..2
                             /\ AllDigits(SubSeq(t, 1, k))
                             /\ SubSeq(t, k + 1, k + 1) \in {".", ":"}
                             /\ AllDigits(SubSeq(t, k + 2, Len(t)))}}

C10_ParseHhmmExact ==
    Returned("parse_hhmm") =>
        LET ok == {p \in TimeReadings(arg[1]) : p[1] \in 0..23 /\ p[2] \in 0..59}
        IN  /\ (ok = {} => IsNone(ret))
            /\ (ok # {} => ret \in ok)
            /\ (~IsNone(ret) => ret[1] \in 0..23 /\ ret[2] \in 0..59)

\* a one-digit hour with ':' was accepted, after trimming
C10_Witness == Returned("parse_hhmm") /\ arg[1] = " 6:20" /\ ret = <<6, 20>>

(***************************************************************************)
(* C11: when parse_hhmm accepts the operation time as (h, m), the default  *)
(* of "Mulai puasa" is (h, m) less 360 minutes and the default of "Jam     *)
(* antibiotik" is (h, m) less 60 minutes, both wrapped across midnight and *)
(* written as two-digit HH.MM, so the second is the first plus 300 minutes *)
(* modulo 24 hours; when it does not accept it both defaults are "" and    *)
(* the plan holds no fasting line and no antibiotic line.                  *)
(***************************************************************************)
\* minute-of-day total written HH.MM, two digits each
C11_Clock(total) ==
    LET two(n) == SubSeq("0123456789", n \div 10 + 1, n \div 10 + 1)
                  \o SubSeq("0123456789", (n % 10) + 1, (n % 10) + 1)
    IN  two(total \div 60) \o "." \o two(total % 60)

\* the minute of the day n minutes before (h, m)
C11_Before(t, n) == (t[1] * 60 + t[2] + 2 * 1440 - n) % 1440

C11_PuasaLead == "Puasa 6 jam pre op"
C11_AbLead == "Pasien rencana diberikan antibiotik profilaksis"

C11_HasLine(lines, lead) == \E i \in 1..Len(lines) : StartsWith(lines[i], lead)

C11_AutoTimes ==
    Returned("tab2") =>
        LET holds(t, f, lines) ==
                /\ ~IsNone(t) =>
                       /\ f.puasa_mulai = C11_Clock(C11_Before(t, 360))
                       /\ f.ab_jam = C11_Clock(C11_Before(t, 60))
                       /\ f.ab_jam = C11_Clock((C11_Before(t, 360) + 300) % 1440)
                       /\ Len(f.puasa_mulai) = 5 /\ Len(f.ab_jam) = 5
                /\ IsNone(t) =>
                       /\ f.puasa_mulai = "" /\ f.ab_jam = ""
                       /\ ~C11_HasLine(lines, C11_PuasaLead)
                       /\ ~C11_HasLine(lines, C11_AbLead)
        IN  holds(parse_hhmm(arg[1]), form_of(EmptyDict, "jam_operasi" :> arg[1]),
                  ret.edited.plan_lines)

\* 02.00 was entered: fasting starts 20.00 the day before, the antibiotic is due 01.00
C11_Witness ==
    /\ Returned("tab2")
    /\ arg[1] = "02.00"
    /\ InSeq(C11_PuasaLead \o " atau sesuai instruksi dari TS. Anestesi yaitu mulai Pukul 20.00 WITA",
             ret.edited.plan_lines)
    /\ C11_HasLine(ret.edited.plan_lines, C11_AbLead)

(***************************************************************************)
(* C12: maintenance_ml_per_hr_421 is the 4-2-1 rule of the weight w, a     *)
(* negative w counting as 0: 4 mL/hr for each of the first 10 kg, 2 for    *)
(* each of the next 10 kg and 1 for each kg above 20, that is 4*w up to    *)
(* 10 kg, 40 + 2*(w-10) up to 20 kg and 60 + (w-20) above; the pieces meet *)
(* at 10 kg and at 20 kg, the rate is never negative, and 25 kg gives 65.  *)
(* Weights and rates are in thousandths.                                   *)
(***************************************************************************)
C12_Least(a, b) == IF a <= b THEN a ELSE b

\* the part of w between lo and lo + 10 kg
C12_Band(w, lo) == C12_Least(IF w > lo THEN w - lo ELSE 0, 10000)

C12_Maintenance421 ==
    Returned("maintenance_ml_per_hr_421") =>
        LET w == IF arg[1] < 0 THEN 0 ELSE arg[1]
        IN  /\ ret = 4 * C12_Band(w, 0) + 2 * C12_Band(w, 10000)
                      + (IF w > 20000 THEN w - 20000 ELSE 0)
            /\ w <= 10000 => ret = 4 * w
            /\ (w > 10000 /\ w <= 20000) => ret = 40000 + 2 * (w - 10000)
            /\ w > 20000 => ret = 60000 + (w - 20000)
            /\ w = 10000 => ret = 40000 + 2 * (w - 10000)
            /\ w = 20000 => ret = 60000 + (w - 20000)
            /\ ret >= 0
            /\ arg[1] = 25000 => ret = 65000

\* 25 kg gave 65 mL/hr
C12_Witness == Returned("maintenance_ml_per_hr_421") /\ arg = <<25000>> /\ ret = 65000

(***************************************************************************)
(* C13: for a numeric rate and a whole drip factor tpm_from_ml_per_hr      *)
(* returns the integer nearest to mL/hr x drip factor / 60, the even one   *)
(* when two are equally near, as round() does; 65 mL/hr at 20 drops/mL     *)
(* gives 22.  When an input is no number (None, nan, a text without a      *)
(* number) it returns 0.  The result is always an integer.                 *)
(***************************************************************************)
\* an int or a float that is not nan
C13_Number(x) == x.type \in {"int", "float"} /\ x.text = ""

\* None, nan, or a text that holds no digit
C13_Invalid(x) ==
    \/ x.type = "NoneType"
    \/ x.type = "float" /\ x.text = "nan"
    \/ x.type = "str" /\ \A i \in 1..Len(x.text) : SubSeq(x.text, i, i) \notin DigitChars

C13_WitnessInvalid ==
    /\ Returned("tpm_from_ml_per_hr")
    /\ arg = <<Py("str", 0, "abc"), Py("int", 20000, "")>>
    /\ ret = 0

(***************************************************************************)
(* C14: build_preop renders the raw supporting-exam block whenever it is   *)
(* not blank: the block appears between the IO section and the A label     *)
(* with its outer white space trimmed and every line after the first as    *)
(* it was written, indentation included, and no item of the list is        *)
(* rendered; the bulleted item list is rendered only when the raw block is *)
(* blank; when there is neither, the A label follows the IO section.       *)
(***************************************************************************)
\* the report from the IO label through the A label, given what lies between
C14_Region(p, block) ==
    "IO:\n" \o (IF p.IO = "" THEN "" ELSE p.IO \o "\n\n") \o block \o "A:\n"

C14_ItemLine(item) == BULLET_SEQ \o item

C14_ItemBlock(items) ==
    "Pemeriksaan penunjang :\n"
    \o Join("\n", [i \in 1..Len(items) |-> C14_ItemLine(items[i])]) \o "\n\n"

\* the lines of the raw block between its first and its last non-blank line are,
\* unchanged, the lines of the trimmed block between its first and its last
C14_InteriorKept(written, trimmed) ==
    LET nonblank == {i \in 1..Len(written) : Strip(written[i]) # ""}
        first == CHOOSE a \in nonblank : \A i \in nonblank : a <= i
        last == CHOOSE b \in nonblank : \A i \in nonblank : i <= b
    IN  /\ Len(trimmed) = last - first + 1
        /\ \A i \in (first + 1)..(last - 1) : trimmed[i - first + 1] = written[i]

C15_Rendered(A) ==
    IF Strip(A) = "" THEN ""
    ELSE IF Slice(Strip(A), 0, Len(BULLET)) = BULLET THEN Strip(A)
    ELSE BULLET_SEQ \o Strip(A)

\* the report from the A label through the P label, given the assessment shown
C15_Region(shown) == "\nA:\n" \o (IF shown = "" THEN "" ELSE shown \o "\n\n") \o "P:\n"

C15_BulletOnce ==
    Returned("build_preop") =>
        LET holds(A, shown) ==
                /\ Contains(ret, C15_Region(shown))
                /\ shown # "" => Slice(shown, 0, Len(BULLET)) = BULLET
                /\ Slice(Strip(A), 0, Len(BULLET)) = BULLET => shown = Strip(A)
                /\ A_text(shown) = shown
                /\ A = BULLET_SEQ \o "abses" => shown = A
        IN  holds(arg[1].A, C15_Rendered(arg[1].A))

\* an assessment that already had the bullet was rendered with that one bullet
C15_Witness ==
    /\ Returned("build_preop")
    /\ arg[1].A = BULLET_SEQ \o "abses"
    /\ Contains(ret, "\nA:\n" \o BULLET_SEQ \o "abses\n\nP:\n")
    /\ ~Contains(ret, BULLET_SEQ \o BULLET_SEQ)

(***************************************************************************)
(* C16: the report of build_preop holds, in this order, the greeting, the  *)
(* identity line, S, O with Status Generalis and Status Lokalis (EO, IO,   *)
(* the supporting exams), A, P with the plan items and then one procedure  *)
(* line, the medications if any, the closing lines, the resident line and  *)
(* the attending line.  Each label is there once even when its section is  *)
(* empty, and "Medikasi:" is there exactly when a medication is not blank. *)
(***************************************************************************)
\* the lines that are always in the report, in the order of the report
C16_Fixed(p) ==
    <<"S: " \o p.S, "O:", "Status Generalis:", "Status Lokalis:", "EO:", "IO:", "A:", "P:",
      BULLET_SEQ \o "Pro insisi dalam general anestesi pada hari Kamis, 29/02/2024 Pukul 08.00 WITA di "
          \o p.rs,
      "Mohon instruksi selanjutnya, Dokter.", "Terima kasih.", "Residen: drg. A",
      "DPJP: " \o DPJP_PRESETS[1]>>

\* where the line x is in lines: one place for a line that is there once
C16_Places(lines, x) == {i \in 1..Len(lines) : lines[i] = x}

C16_Place(lines, x) == CHOOSE i \in C16_Places(lines, x) : TRUE

\* lines[from + 1 .. to - 1] without the empty lines
C16_Between(lines, from, to) ==
    LET blank(x) == x # "" IN SelectSeq(SubSeq(lines, from + 1, to - 1), blank)

C16_Bulleted(items) == [i \in 1..Len(items) |-> BULLET_SEQ \o items[i]]

C16_Trimmed(items) ==
    LET kept(x) == x # "" IN SelectSeq([i \in 1..Len(items) |-> Strip(items[i])], kept)

C16_SectionOrder ==
    Returned("build_preop") =>
        LET lines == SplitLines(ret)
            fixed == C16_Fixed(arg[1])
            at(k) == C16_Place(lines, fixed[k])
            kept(x) == Strip(x) # ""
            plans == SelectSeq(arg[4], kept)
            meds == C16_Trimmed(arg[5])
        IN  /\ lines[1] = arg[1].sapaan
            /\ StartsWith(lines[2], arg[1].pembuka)
            /\ StartsWith(lines[4], arg[1].nama \o " / ")
            /\ \A k \in 1..Len(fixed) : Cardinality(C16_Places(lines, fixed[k])) = 1
            /\ at(1) = 6
            /\ \A k \in 1..(Len(fixed) - 1) : at(k) < at(k + 1)
            /\ at(Len(fixed)) = Len(lines)
            /\ C16_Between(lines, at(3), at(4)) = SplitLines(arg[1].O_generalis)
            /\ C16_Between(lines, at(5), at(6)) = SplitLines(arg[1].EO)
            /\ C16_Between(lines, at(8), at(9)) = C16_Bulleted(plans)
            /\ C16_Between(lines, at(9), at(10)) =
                   (IF meds = <<>> THEN <<>> ELSE <<"Medikasi:">> \o C16_Bulleted(meds))
            /\ InSeq("Medikasi:", lines) <=> \E i \in 1..Len(arg[5]) : Strip(arg[5][i]) # ""

\* every narrative section is empty and only blank medications were given:
\* the labels are there and "Medikasi:" is not
C16_Witness ==
    /\ Returned("build_preop")
    /\ arg[1].S = "" /\ arg[1].EO = "" /\ arg[1].A = ""
    /\ arg[5] = <<" ">>
    /\ Contains(ret, "S: \n\nO:\nStatus Generalis:\nStatus Lokalis:\nEO:\nIO:\n")
    /\ ~Contains(ret, "Medikasi")

(***************************************************************************)
(* C17: whenever the session holds a parsed model, raw_prev is a text that *)
(* is not blank and the parsed model is parse_raw_soap(raw_prev); a run of *)
(* tab 1 on a blank text, or on the text raw_prev already holds, with or   *)
(* without "Parse ulang", leaves the parsed model and raw_prev as they     *)
(* are; after reset_all the session holds neither key.                     *)
(***************************************************************************)
\* raw_prev, which parse_if_needed reads as "" while the session has none
C17_RawPrev(ss) == Get(ss, "raw_prev", "")

C17_Follows(ss) ==
    "parsed" \in DOMAIN ss =>
        /\ "raw_prev" \in DOMAIN ss
        /\ Strip(ss.raw_prev) # ""
        /\ ss.parsed = parse_raw_soap(ss.raw_prev)

\* the pair (parsed, raw_prev) of the session
C17_Pair(ss) == <<StoredParsed(ss), IF "raw_prev" \in DOMAIN ss THEN <<ss.raw_prev>> ELSE <<>>>>

\* C17_Follows holds at the start and after every step that changes the pair, hence always
C17_ParsedFollowsRawPrev ==
    /\ C17_Follows(session_state)
    /\ [][/\ C17_Pair(session_state') # C17_Pair(session_state) => C17_Follows(session_state')
          /\ (pc = "tab1" /\ (Strip(raw) = "" \/ raw = C17_RawPrev(session_state))) =>
                 /\ StoredParsed(session_state') = StoredParsed(session_state)
                 /\ C17_RawPrev(session_state') = C17_RawPrev(session_state)
          /\ (pc = "top" /\ button = "reset") =>
                 /\ "parsed" \notin DOMAIN session_state'
                 /\ "raw_prev" \notin DOMAIN session_state']_vars

\* tab 1 has run on an emptied text area: the parsed model is still that of raw_prev
C17_Witness ==
    /\ pc = "tab2"
    /\ raw = ""
    /\ "parsed" \in DOMAIN session_state
    /\ session_state.raw_prev = SoapRawatJalan
    /\ session_state.parsed = parse_raw_soap(SoapRawatJalan)

=============================================================================
